---- MODULE Spec2Model ----
(***************************************************************************)
(* The CHOW decision engine (DecisionEngine) as a state machine.           *)
(*                                                                         *)
(* One evaluation (DecisionEngine.process) runs over one input record.     *)
(* process is a sequence of calls; each call that needs the timing reads   *)
(* the clock itself (getTiming builds a new Date()), so the model keeps    *)
(* the clock as state, lets it advance between the calls, and records the  *)
(* value of the local constant `timing` of every call.                     *)
(*                                                                         *)
(* Around the engine: the page (app.js: form, submit and clear handlers,   *)
(* form state in localStorage) and the ticketing integration               *)
(* (linear-integration.js: settings dialog and create-issue modal, with    *)
(* their requests in flight).  Each part has its own specification; the    *)
(* variables of the other parts stay as they are at its start.             *)
(***************************************************************************)
EXTENDS Integers, Sequences, FiniteSets, TLC

\* Days are counted from day 0; the clock stops advancing at MaxDay.
MaxDay == 1

\* ------------------------------------------------------------------------
\* Domains of the categorical fields of the input record
\* ------------------------------------------------------------------------
SaleTypes == {"asset", "stock", "unknown"}
ContractValues == {"yes", "no", "unknown"}
YesNo == {"yes", "no"}
YesNoUnknown == {"yes", "no", "unknown"}
BlacklistValues == {"none", "old", "new", "both"}
Days == 0..MaxDay

Levels == {"low", "medium", "high"}
Confidences == {"high", "medium", "low"}

\* JavaScript's undefined (a property that was never set) and null
Undefined == "<undefined>"
Null == "<null>"

\* The free-text fields: a one-line field is a string, a multi-line field
\* the sequence of its lines.  No rule of the engine reads them; only the
\* formatter copies them.  The evaluations of Spec run with every field
\* filled in.
TextFilled ==
    [oldOwnerName |-> "Old Owner LLC",
     newOwnerName |-> "New Owner Inc",
     affectedFacilities |-> <<"Facility A", " Facility B ">>,
     newFacilityNames |-> <<"Facility A2">>,
     newOwnerContact |-> <<"Jane Doe", "jane@example.com">>]

TextProfiles == {TextFilled}

CategoricalInputs ==
    [acquisitionDate : Days,
     saleType : SaleTypes,
     contractSigned : ContractValues,
     outstandingAR : YesNo,
     futureBookedShifts : YesNo,
     financialDistress : YesNoUnknown,
     willingnessToPay : YesNoUnknown,
     blacklisted : BlacklistValues,
     badDebt : YesNo]

\* The record the submit handler builds from the form
MakeInputs(c, t) ==
    [acquisitionDate |-> c.acquisitionDate,
     saleType |-> c.saleType,
     contractSigned |-> c.contractSigned,
     outstandingAR |-> c.outstandingAR,
     futureBookedShifts |-> c.futureBookedShifts,
     financialDistress |-> c.financialDistress,
     willingnessToPay |-> c.willingnessToPay,
     blacklisted |-> c.blacklisted,
     badDebt |-> c.badDebt,
     oldOwnerName |-> t.oldOwnerName,
     newOwnerName |-> t.newOwnerName,
     affectedFacilities |-> t.affectedFacilities,
     newFacilityNames |-> t.newFacilityNames,
     newOwnerContact |-> t.newOwnerContact]

CaseInputs == {MakeInputs(c, t) : c \in CategoricalInputs, t \in TextProfiles}

VARIABLES
    inputs,   \* the input record handed to process
    today,    \* the clock, in whole days (time of day is stripped by getTiming)
    pc,       \* the call of process that runs next
    timingOf, \* the local constant `timing` of each call made so far
    result    \* the components process has computed so far

\* The page around the engine (app.js)
VARIABLES
    form,                  \* the values of the fields of the form
    formState,             \* localStorage 'chow-form-state': <<>> or <<the stored JSON>>
    currentLinearMarkdown, \* window.currentLinearMarkdown
    windowStageMarkdown,   \* window.stageMarkdown
    outputDisplay,         \* outputSection.style.display
    lastSubmit,            \* history: <<>> or <<the record of the last submit no clear followed>>
    lastEvent              \* history: the last handler that ran

\* The ticketing integration (linear-integration.js)
VARIABLES
    settings,          \* the settings of LinearIntegration (apiKey, teamId)
    storedSettings,    \* localStorage 'chow-linear-settings': <<>> or <<the saved settings>>
    apiKeyInput,       \* the value of the API key input
    teams,             \* the team list of the settings dialog
    teamSelect,        \* the value of the team dropdown
    statusDiv,         \* the status text of the settings dialog
    requests,          \* the GraphQL requests in flight, in the order sent
    createIssueModal,  \* the create-issue modal is shown
    issueTitle,        \* the value of the title input
    confirmDisabled,   \* confirmCreateIssueBtn.disabled
    createIssueStatus, \* the status text of the create-issue modal
    createdShown       \* the 'Created' feedback was shown since the modal opened

engineVars == <<inputs, today, pc, timingOf, result>>

appVars ==
    <<form, formState, currentLinearMarkdown, windowStageMarkdown, outputDisplay,
      lastSubmit, lastEvent>>

linearVars ==
    <<settings, storedSettings, apiKeyInput, teams, teamSelect, statusDiv, requests,
      createIssueModal, issueTitle, confirmDisabled, createIssueStatus, createdShown>>

vars == <<engineVars, appVars, linearVars>>

\* ------------------------------------------------------------------------
\* getTiming
\* ------------------------------------------------------------------------
getTiming(acquisitionDate, now) ==
    IF acquisitionDate <= now THEN "past" ELSE "future"

\* ------------------------------------------------------------------------
\* calculateRisk
\* ------------------------------------------------------------------------
\* The constants calculateRisk derives before the clauses;
\* unknownWillingness is the test inputs.willingnessToPay === 'unknown' of
\* line 162
RiskFacts(in, now) ==
    [timing |-> getTiming(in.acquisitionDate, now),
     hasAR |-> in.outstandingAR = "yes",
     hasFBS |-> in.futureBookedShifts = "yes",
     hasExposure |-> (in.outstandingAR = "yes") \/ (in.futureBookedShifts = "yes"),
     contractSigned |-> in.contractSigned = "yes",
     noContract |-> in.contractSigned = "no",
     unknownContract |-> in.contractSigned = "unknown",
     isAssetSale |-> in.saleType = "asset",
     isStockSale |-> in.saleType = "stock",
     isUnknownSale |-> in.saleType = "unknown",
     hasDistress |-> in.financialDistress = "yes",
     unwillingToPay |-> in.willingnessToPay = "no",
     willingToPay |-> in.willingnessToPay = "yes",
     unknownWillingness |-> in.willingnessToPay = "unknown",
     newOwnerBlacklisted |-> in.blacklisted \in {"new", "both"},
     oldOwnerBlacklisted |-> in.blacklisted \in {"old", "both"},
     inBadDebt |-> in.badDebt = "yes"]

Risk(level, reasons) == [level |-> level, reasons |-> reasons]

Opt(cond, s) == IF cond THEN <<s>> ELSE <<>>

\* Clause 1: no financial exposure
NoExposureClause_NoBump(f) ==
    Risk("low",
         <<"No financial exposure ($0 AR, no future booked shifts)">>
         \o Opt(f.newOwnerBlacklisted,
                "Note: New owner is blacklisted - relationship cannot continue"))

NoExposureClause(f) ==
    IF f.newOwnerBlacklisted
    THEN Risk("medium",
              <<"No financial exposure ($0 AR, no future booked shifts)",
                "Note: New owner is blacklisted - relationship cannot continue">>)
    ELSE Risk("low", <<"No financial exposure ($0 AR, no future booked shifts)">>)

\* Clause 2: stock sale with signed contract
StockContractClause_DistressHigh(f) ==
    Risk(IF f.newOwnerBlacklisted \/ f.hasDistress THEN "high" ELSE "low",
         <<"Stock sale with signed contract - new owner assumes debt and is committed">>
         \o Opt(f.hasDistress,
                "Note: Financial distress signals present, but new owner has signed contract")
         \o Opt(f.newOwnerBlacklisted,
                "Warning: New owner is blacklisted - escalate to collections team"))

StockContractClause_NoEscalation(f) ==
    Risk("low",
         <<"Stock sale with signed contract - new owner assumes debt and is committed">>
         \o Opt(f.hasDistress,
                "Note: Financial distress signals present, but new owner has signed contract")
         \o Opt(f.newOwnerBlacklisted,
                "Warning: New owner is blacklisted - escalate to collections team"))

StockContractClause(f) ==
    Risk(IF f.newOwnerBlacklisted THEN "high" ELSE "low",
         <<"Stock sale with signed contract - new owner assumes debt and is committed">>
         \o Opt(f.hasDistress,
                "Note: Financial distress signals present, but new owner has signed contract")
         \o Opt(f.newOwnerBlacklisted,
                "Warning: New owner is blacklisted - escalate to collections team"))

\* Clause 3: future CHOW with contract signed
FutureContractGuard_IgnoresBlacklist(f) ==
    f.timing = "future" /\ f.contractSigned

FutureContractGuard(f) ==
    f.timing = "future" /\ f.contractSigned /\ ~f.newOwnerBlacklisted

FutureContractClause_AlwaysMedium(f) ==
    Risk("medium",
         <<"Future CHOW with contract already signed - time to prepare">>
         \o Opt(f.isAssetSale /\ f.hasAR,
                "Asset sale with AR - need to confirm old owner payment plan"))

FutureContractClause_AlwaysLow(f) ==
    Risk("low",
         <<"Future CHOW with contract already signed - time to prepare">>
         \o Opt(f.isAssetSale /\ f.hasAR,
                "Asset sale with AR - need to confirm old owner payment plan"))

FutureContractClause(f) ==
    Risk(IF f.isAssetSale /\ f.hasAR THEN "medium" ELSE "low",
         <<"Future CHOW with contract already signed - time to prepare">>
         \o Opt(f.isAssetSale /\ f.hasAR,
                "Asset sale with AR - need to confirm old owner payment plan"))

\* Clause 5: past CHOW without contract, with exposure
PastNoContractGuard_NoOnly(f) ==
    f.timing = "past" /\ f.noContract /\ f.hasExposure

PastNoContractGuard(f) ==
    f.timing = "past" /\ (f.noContract \/ f.unknownContract) /\ f.hasExposure

PastNoContractClause(f) ==
    Risk("high",
         <<"Past CHOW with no contract and financial exposure">>
         \o Opt(f.isUnknownSale,
                "Sale type unknown - cannot determine who is responsible for debt"))

\* Clause 6: asset sale with financial distress and outstanding AR
AssetDistressGuard_NeedsNoContract(f) ==
    f.isAssetSale /\ f.hasDistress /\ f.hasAR /\ ~f.contractSigned

AssetDistressGuard(f) ==
    f.isAssetSale /\ f.hasDistress /\ f.hasAR

\* Clause 10: future CHOW without contract, with exposure
FutureNoContractClause_High(f) ==
    Risk("high",
         <<"Future CHOW without signed contract but time to act">>
         \o Opt(f.hasDistress /\ f.isAssetSale,
                "Financial distress with asset sale - prioritize securing new contract"))

FutureNoContractClause(f) ==
    Risk("medium",
         <<"Future CHOW without signed contract but time to act">>
         \o Opt(f.hasDistress /\ f.isAssetSale,
                "Financial distress with asset sale - prioritize securing new contract"))

\* Clause 12: asset sale with contract, AR to collect from the old owner
AssetContractClause(f) ==
    Risk("medium",
         <<"Asset sale with contract - need to collect from old owner">>
         \o Opt(f.hasDistress,
                "Financial distress signals - old owner may have difficulty paying"))

\* Clause 16: the default
DefaultClause_NoReason ==
    Risk("medium", <<>>)

DefaultClause ==
    Risk("medium", <<"Standard CHOW scenario - follow normal process">>)

\* The same guard, reading noContract where the code reads !contractSigned
FutureNoContractGuard_NoOnly(f) ==
    f.timing = "future" /\ f.noContract /\ f.hasExposure

\* Lines 137: future CHOW, contract not signed (no or unknown), exposure
FutureNoContractGuard(f) ==
    f.timing = "future" /\ ~f.contractSigned /\ f.hasExposure

\* The same guard without the test of outstanding AR
AssetContractGuard_NoAR(f) ==
    f.isAssetSale /\ f.contractSigned

\* Line 152: asset sale with contract and AR to collect from the old owner
AssetContractGuard(f) ==
    f.isAssetSale /\ f.contractSigned /\ f.hasAR

\* The cascade over the derived constants: the first clause whose guard
\* holds returns.
RiskCascade(f) ==
    IF ~f.hasExposure THEN NoExposureClause(f)
    ELSE IF f.isStockSale /\ f.contractSigned THEN StockContractClause(f)
    ELSE IF FutureContractGuard(f) THEN FutureContractClause(f)
    ELSE IF f.newOwnerBlacklisted /\ f.hasExposure THEN
        Risk("high", <<"New owner is blacklisted with financial exposure - cannot safely continue">>)
    ELSE IF PastNoContractGuard(f) THEN PastNoContractClause(f)
    ELSE IF AssetDistressGuard(f) THEN
        Risk("high", <<"Asset sale with financial distress and outstanding AR - old owner unlikely to pay">>)
    ELSE IF f.unwillingToPay /\ f.hasAR THEN
        Risk("high", <<"Responsible party indicates unwillingness to pay with outstanding AR">>)
    ELSE IF f.isUnknownSale /\ f.hasExposure /\ f.timing = "past" THEN
        Risk("high", <<"Past CHOW with unknown sale type - unclear who is responsible for debt">>)
    ELSE IF f.inBadDebt /\ f.isStockSale /\ ~f.contractSigned THEN
        Risk("high", <<"Account in bad debt collections with stock sale and no new contract">>)
    ELSE IF FutureNoContractGuard(f) THEN FutureNoContractClause(f)
    ELSE IF f.isStockSale /\ ~f.contractSigned /\ f.hasExposure THEN
        Risk("medium", <<"Stock sale without contract - new owner would assume debt but needs to commit">>)
    ELSE IF AssetContractGuard(f) THEN AssetContractClause(f)
    ELSE IF f.unknownWillingness /\ f.hasAR THEN
        Risk("medium", <<"Unknown willingness to pay with outstanding AR">>)
    ELSE IF f.oldOwnerBlacklisted /\ f.hasAR /\ f.isAssetSale THEN
        Risk("medium", <<"Old owner blacklisted - may affect collection of pre-sale debt">>)
    ELSE IF f.unknownContract /\ f.hasExposure THEN
        Risk("medium", <<"Contract status unknown with financial exposure">>)
    ELSE DefaultClause

calculateRisk(in, now) == RiskCascade(RiskFacts(in, now))

\* ------------------------------------------------------------------------
\* generateScenarioDescription: the parts that join(' | ') concatenates
\* ------------------------------------------------------------------------
generateScenarioDescription(in, now) ==
    <<IF getTiming(in.acquisitionDate, now) = "past" THEN "Past CHOW" ELSE "Future CHOW">>
    \o <<IF in.saleType = "asset" THEN "Asset Sale"
         ELSE IF in.saleType = "stock" THEN "Stock Sale" ELSE "Unknown Sale Type">>
    \o Opt(in.outstandingAR = "yes", "Outstanding AR")
    \o Opt(in.futureBookedShifts = "yes", "Has FBS")
    \o (IF in.contractSigned = "yes" THEN <<"Contract Signed">>
        ELSE IF in.contractSigned = "no" THEN <<"No Contract">> ELSE <<>>)

\* ------------------------------------------------------------------------
\* generateKeyFocus
\* ------------------------------------------------------------------------
generateKeyFocus(in, riskLevel, now) ==
    LET timing == getTiming(in.acquisitionDate, now)
        hasAR == in.outstandingAR = "yes"
        hasFBS == in.futureBookedShifts = "yes"
        noContract == in.contractSigned \in {"no", "unknown"}
        isAssetSale == in.saleType = "asset"
        isStockSale == in.saleType = "stock"
        hasDistress == in.financialDistress = "yes"
    IN  IF ~hasAR /\ ~hasFBS THEN
            "Low risk situation. No immediate financial exposure. Archive the old account and treat as standard new customer onboarding if they want to continue with Clipboard."
        ELSE IF riskLevel = "high" /\ hasDistress THEN
            "High-risk scenario. Old owner shows signs of financial distress and is unlikely to pay. Immediate action needed: PEND the account now, attempt contact to assess situation, and escalate to Charlie if no response."
        ELSE IF riskLevel = "high" /\ timing = "past" /\ noContract /\ hasAR THEN
            "High-risk scenario. Ownership already changed with no contract and money owed. PEND immediately. Call old and new owners to understand the situation and determine path forward. Focus on securing a new contract or shutting down services."
        ELSE IF riskLevel = "high" /\ in.blacklisted \in {"new", "both"} THEN
            "Critical: New owner is blacklisted. Check for upcoming shifts and inform collections team (Erick, Gayah, Mike Amicucci). Mike will assess risk and determine if services can continue."
        ELSE IF riskLevel = "high" /\ hasFBS /\ noContract THEN
            "High-risk scenario. Future shifts are booked but no contract in place. PEND immediately to prevent additional exposure. Contact both parties urgently to clarify contract status."
        ELSE IF riskLevel = "medium" /\ timing = "future" /\ isAssetSale /\ noContract /\ hasAR THEN
            "Medium risk. CHOW is upcoming which gives time to act. Focus on confirming who is responsible for pre-sale debt and getting a new contract signed before the transition date."
        ELSE IF riskLevel = "medium" /\ isAssetSale /\ in.contractSigned = "yes" /\ hasAR THEN
            "Medium risk. Contract is in place but pre-sale AR needs attention. Create new account for old entity, transfer pre-sale invoices, and establish clear payment expectations with old owner."
        ELSE IF isStockSale /\ in.contractSigned = "yes" THEN
            "Stock sale with contract signed. New owner assumes all debt including pre-sale invoices. Update account information across platforms and confirm new owner understands payment expectations."
        ELSE IF isStockSale /\ noContract THEN
            "Stock sale without contract. New owner would assume debt but needs to sign contract. PEND account until contract is secured. Focus on getting Sales to close the new contract."
        ELSE
            "Gather remaining information, confirm financial responsibility, and coordinate with Sales on contract status."

\* ------------------------------------------------------------------------
\* generatePriorityActions
\* ------------------------------------------------------------------------
Action(text, confidence) == [text |-> text, confidence |-> confidence]

\* The constants generatePriorityActions derives before its branches
ActionFacts(in, now) ==
    [timing |-> getTiming(in.acquisitionDate, now),
     hasAR |-> in.outstandingAR = "yes",
     hasFBS |-> in.futureBookedShifts = "yes",
     hasExposure |-> (in.outstandingAR = "yes") \/ (in.futureBookedShifts = "yes"),
     contractSigned |-> in.contractSigned = "yes",
     noContract |-> in.contractSigned = "no",
     unknownContract |-> in.contractSigned = "unknown",
     isAssetSale |-> in.saleType = "asset",
     isStockSale |-> in.saleType = "stock",
     isUnknownSale |-> in.saleType = "unknown",
     hasDistress |-> in.financialDistress = "yes",
     newOwnerBlacklisted |-> in.blacklisted \in {"new", "both"}]

\* NO EXPOSURE - simple path
NoExposureActions(f) ==
    <<Action("Alert leadership of the CHOW", "high"),
      Action("Archive the account to prevent posting under new ownership without contract", "high"),
      IF f.newOwnerBlacklisted
      THEN Action("Inform collections team - new owner is blacklisted, relationship cannot continue", "high")
      ELSE Action("Sales treats this as standard new customer onboarding if they want to continue", "high")>>

\* BLACKLISTED NEW OWNER - escalate immediately
BlacklistedActions ==
    <<Action("Check CBH App for upcoming shifts at affected facilities and document them", "high"),
      Action("Inform Erick, Gayah, and Mike Amicucci in #collections-team immediately", "high"),
      Action("Wait for Mike to assess risk and determine if services can continue", "high")>>

\* HIGH RISK scenarios
HighRiskActions(f) ==
    IF f.timing = "past" /\ (f.noContract \/ f.unknownContract) THEN
        <<Action("PEND account immediately using \"Change of ownership\" reason", "high"),
          Action("Call old and new owners to assess situation and gather information", "high")>>
        \o Opt(f.hasFBS,
               Action("If no response within 24-48 hours, consider SUSPEND to prevent further exposure", "medium"))
        \o <<Action("Alert Sales about potential new contract opportunity", "high")>>
    ELSE IF f.isAssetSale /\ f.hasDistress /\ f.hasAR THEN
        <<Action("PEND account - old owner in distress unlikely to pay pre-sale debt", "high"),
          Action("Attempt contact with old owner to understand their situation and payment ability", "medium"),
          Action("Prioritize getting new contract signed to protect ongoing relationship", "high"),
          Action("Consider escalating to Charlie if old owner is completely unresponsive", "medium")>>
    ELSE IF f.isUnknownSale THEN
        <<Action("URGENT: Determine sale type (asset vs stock) - this determines who owes the debt", "high"),
          Action("PEND account until sale type is confirmed", "high"),
          Action("Contact both old and new owners to clarify transaction structure", "medium")>>
    ELSE
        <<Action("PEND account to prevent additional exposure", "high"),
          Action("Escalate to leadership for guidance on approach", "medium"),
          Action("Attempt contact with responsible party to assess payment likelihood", "medium")>>

\* MEDIUM RISK scenarios
MediumRiskActions(f) ==
    IF f.timing = "future" THEN
        Opt(~f.contractSigned,
            Action("Work with Sales to get new contract signed before transition date", "high"))
        \o (IF f.isAssetSale /\ f.hasAR
            THEN <<Action("Confirm with old owner they understand responsibility for pre-sale invoices", "high"),
                   Action("Establish payment timeline with old owner before transition", "medium")>>
            ELSE <<>>)
        \o Opt(f.isUnknownSale,
               Action("Determine sale type before transition to clarify debt responsibility", "high"))
        \o Opt(f.isStockSale,
               Action("Confirm new owner understands they will assume all outstanding debt", "high"))
    ELSE IF f.isStockSale /\ ~f.contractSigned THEN
        <<Action("PEND account until new contract is signed", "high"),
          Action("New owner would assume debt - focus on getting contract signed quickly", "high"),
          Action("Alert Sales to prioritize this contract", "medium")>>
    ELSE IF f.isAssetSale /\ f.contractSigned /\ f.hasAR THEN
        <<Action("Create new account for old entity to track pre-sale invoices separately", "high"),
          Action("Transfer pre-sale invoices to old entity account", "high"),
          Action("Establish payment plan with old owner for pre-sale debt", "medium")>>
        \o Opt(f.hasDistress,
               Action("Monitor old owner closely - distress signals present", "medium"))
    ELSE
        <<Action("Confirm financial responsibility with appropriate party", "medium"),
          Action("Coordinate with Sales on contract and account setup", "medium"),
          Action("Consider PEND if situation is unclear - use your judgment", "low")>>

\* LOW RISK scenarios
StockContractActions ==
    <<Action("Update account information across all platforms (Salesforce, CBH App, Invoiced)", "high"),
      Action("Confirm new owner understands they assume all outstanding debt", "high"),
      Action("Verify and update all child facility links", "high")>>

LowRiskActions(f) ==
    IF f.isStockSale /\ f.contractSigned THEN StockContractActions
    ELSE IF f.timing = "future" /\ f.contractSigned THEN
        <<Action("Coordinate transition plan with Sales and new owner", "high")>>
        \o Opt(f.isAssetSale /\ f.hasAR,
               Action("Confirm old owner payment plan for pre-sale invoices", "medium"))
        \o <<Action("Prepare account updates for transition date", "high")>>
    ELSE
        <<Action("Follow standard CHOW process - situation is low risk", "high"),
          Action("Confirm payment expectations with responsible party", "medium"),
          Action("Tag leadership in Slack for visibility", "high")>>

\* The branch order of generatePriorityActions, the stock-sale branch tested
\* before the no-exposure branch
ActionCascade_StockFirst(f, riskLevel) ==
    IF f.isStockSale /\ f.contractSigned /\ ~f.newOwnerBlacklisted THEN StockContractActions
    ELSE IF ~f.hasExposure THEN NoExposureActions(f)
    ELSE IF f.newOwnerBlacklisted THEN BlacklistedActions
    ELSE IF riskLevel = "high" THEN HighRiskActions(f)
    ELSE IF riskLevel = "medium" THEN MediumRiskActions(f)
    ELSE LowRiskActions(f)

\* The same branches, the risk level tested before the new-owner blacklist
ActionCascade_RiskFirst(f, riskLevel) ==
    IF ~f.hasExposure THEN NoExposureActions(f)
    ELSE IF riskLevel = "high" THEN HighRiskActions(f)
    ELSE IF riskLevel = "medium" THEN MediumRiskActions(f)
    ELSE IF f.newOwnerBlacklisted THEN BlacklistedActions
    ELSE LowRiskActions(f)

ActionCascade(f, riskLevel) ==
    IF ~f.hasExposure THEN NoExposureActions(f)
    ELSE IF f.newOwnerBlacklisted THEN BlacklistedActions
    ELSE IF riskLevel = "high" THEN HighRiskActions(f)
    ELSE IF riskLevel = "medium" THEN MediumRiskActions(f)
    ELSE LowRiskActions(f)

generatePriorityActions(in, riskLevel, now) == ActionCascade(ActionFacts(in, now), riskLevel)

\* ------------------------------------------------------------------------
\* generateChecklist
\* ------------------------------------------------------------------------
\* String.prototype.toUpperCase on the strings the engine applies it to
toUpperCase(s) ==
    CASE s = "asset" -> "ASSET"
      [] s = "stock" -> "STOCK"
      [] s = "unknown" -> "UNKNOWN"
      [] s = "past" -> "PAST"
      [] s = "future" -> "FUTURE"
      [] s = "low" -> "LOW"
      [] s = "medium" -> "MEDIUM"
      [] s = "high" -> "HIGH"
      [] s = "warning" -> "WARNING"
      [] s = "critical" -> "CRITICAL"
      [] s = "merger" -> "MERGER"
      [] OTHER -> s

\* A task object; a property the object literal does not set is Undefined
Task(text, completed, note, label) ==
    [text |-> text, completed |-> completed, note |-> note, label |-> label]

\* The constants generateChecklist derives before the stages, and the
\* fields of the input it reads directly (saleType at line 609, badDebt at
\* line 616, financialDistress === 'unknown' at line 652)
ChecklistFacts(in, now) ==
    [timing |-> getTiming(in.acquisitionDate, now),
     hasAR |-> in.outstandingAR = "yes",
     hasFBS |-> in.futureBookedShifts = "yes",
     noContract |-> in.contractSigned \in {"no", "unknown"},
     contractSigned |-> in.contractSigned = "yes",
     isAssetSale |-> in.saleType = "asset",
     isStockSale |-> in.saleType = "stock",
     isUnknownSale |-> in.saleType = "unknown",
     hasDistress |-> in.financialDistress = "yes",
     unknownDistress |-> in.financialDistress = "unknown",
     inBadDebt |-> in.badDebt = "yes",
     saleType |-> in.saleType,
     badDebt |-> in.badDebt]

\* STAGE 1: Pre-Outreach
Stage1Tasks_BadDebtOpen(f) ==
    <<Task("Confirm outstanding AR status", TRUE,
           IF f.hasAR THEN "Yes - has outstanding AR" ELSE "No outstanding AR", Undefined),
      Task("Confirm future booked shifts (FBS)", TRUE,
           IF f.hasFBS THEN "Yes - has FBS" ELSE "No FBS", Undefined),
      Task("Confirm acquisition date and timing", TRUE,
           IF f.timing = "past" THEN "PAST" ELSE "FUTURE", Undefined),
      Task("Determine sale type", TRUE, toUpperCase(f.saleType), Undefined),
      IF ~f.inBadDebt
      THEN Task("Check if account is in bad debt collections", FALSE, Undefined, Undefined)
      ELSE Task("Check if account is in bad debt collections", TRUE, "YES - in bad debt", Undefined)>>

Stage1Tasks(f) ==
    <<Task("Confirm outstanding AR status", TRUE,
           IF f.hasAR THEN "Yes - has outstanding AR" ELSE "No outstanding AR", Undefined),
      Task("Confirm future booked shifts (FBS)", TRUE,
           IF f.hasFBS THEN "Yes - has FBS" ELSE "No FBS", Undefined),
      Task("Confirm acquisition date and timing", TRUE,
           IF f.timing = "past" THEN "PAST" ELSE "FUTURE", Undefined),
      Task("Determine sale type", TRUE, toUpperCase(f.saleType), Undefined),
      IF ~f.inBadDebt
      THEN Task("Check if account is in bad debt collections", f.badDebt = "no", Undefined, Undefined)
      ELSE Task("Check if account is in bad debt collections", TRUE, "YES - in bad debt", Undefined)>>

\* STAGE 2: Outreach, as appended before the special case
Stage2Tasks(f) ==
    Opt(f.isAssetSale \/ f.isUnknownSale,
        Task("Confirm financial responsibility with old owner for pre-sale invoices", FALSE, Undefined, "billing"))
    \o Opt(f.isStockSale,
           Task("Confirm new owner understands they assume all outstanding debt", FALSE, Undefined, "billing"))
    \o <<Task("Confirm all payers know when we expect next payment", FALSE, Undefined, "billing")>>
    \o Opt(f.hasDistress \/ f.unknownDistress,
           Task("Investigate signs of financial distress from responsible owner", f.hasDistress,
                IF f.hasDistress THEN "Already indicated: YES" ELSE Null, "billing"))
    \o <<IF f.noContract
         THEN Task("Sales: Get new contract signed with new ownership", FALSE, Undefined, "sales")
         ELSE Task("Confirm contract is in place with Sales", f.contractSigned, Undefined, "sales")>>
    \o <<Task("Request proof of ownership change documentation", FALSE, Undefined, "billing")>>

\* STAGE 3: Post-Outreach, as appended before the special case
Stage3Tasks(f) ==
    <<Task("Once financial responsibility confirmed, tag leadership for re-enrollment decision", FALSE, Undefined, "escalate")>>
    \o (IF f.isAssetSale
        THEN <<Task("Sales: Create new parent account for acquiring entity across all platforms", FALSE, Undefined, "sales"),
               Task("Sales: Mark old parent account as inactive (unless other active facilities remain)", FALSE, Undefined, "sales")>>
             \o Opt(f.hasAR \/ f.hasFBS,
                    Task("Transfer pre-sale invoices/shifts to old entity account", FALSE, Undefined, "billing"))
        ELSE <<>>)
    \o (IF f.isStockSale
        THEN <<Task("Sales: Update existing parent account info across all platforms", FALSE, Undefined, "sales"),
               Task("Sales: Verify and update all child facility links", FALSE, Undefined, "sales")>>
        ELSE <<>>)
    \o <<Task("Sales: Adjust charge rates as necessary", FALSE, Undefined, "sales")>>
    \o Opt(f.hasAR /\ f.isAssetSale,
           Task("Notify @cash-ops-team of transferred invoices (include list, partial payments, credit notes)", FALSE, Undefined, "billing"))
    \o (IF f.inBadDebt /\ f.isStockSale
        THEN <<Task("Tag bad debt team in #collections-team about acquisition (stock sale = new owner takes debt)", FALSE, Undefined, "escalate"),
               Task("Wait for Kelly approval before re-enrolling", FALSE, Undefined, "escalate")>>
        ELSE <<>>)

\* The same tasks, appended for AR or FBS
Stage4Tasks_Exposure(f) ==
    IF f.hasAR \/ f.hasFBS
    THEN <<Task("Continue chasing responsible party for pre-CHOW invoices", FALSE, Undefined, "billing"),
           Task("Monitor for payment commitments and follow up", FALSE, Undefined, "billing")>>
         \o Opt(f.isAssetSale,
                Task("Archive old account once all invoices paid", FALSE, Undefined, "billing"))
    ELSE <<>>

\* STAGE 4: Continuous, as appended before the special case
Stage4Tasks(f) ==
    IF f.hasAR
    THEN <<Task("Continue chasing responsible party for pre-CHOW invoices", FALSE, Undefined, "billing"),
           Task("Monitor for payment commitments and follow up", FALSE, Undefined, "billing")>>
         \o Opt(f.isAssetSale,
                Task("Archive old account once all invoices paid", FALSE, Undefined, "billing"))
    ELSE <<>>

\* Special case: no AR, no FBS -- stages 2 to 4 are assigned new arrays
NoExposureOverride_Appends(checklist, f) ==
    IF ~f.hasAR /\ ~f.hasFBS
    THEN [checklist EXCEPT
            !.stage2 = @ \o <<Task("Coordinate with Sales on new customer onboarding (if applicable)", FALSE, Undefined, "sales")>>,
            !.stage3 = @ \o <<Task("Archive old account", FALSE, Undefined, "billing")>>,
            !.stage4 = @ \o <<Task("No ongoing collection needed - $0 AR", TRUE, Undefined, Undefined)>>]
    ELSE checklist

NoExposureOverride(checklist, f) ==
    IF ~f.hasAR /\ ~f.hasFBS
    THEN [checklist EXCEPT
            !.stage2 = <<Task("Coordinate with Sales on new customer onboarding (if applicable)", FALSE, Undefined, "sales")>>,
            !.stage3 = <<Task("Archive old account", FALSE, Undefined, "billing")>>,
            !.stage4 = <<Task("No ongoing collection needed - $0 AR", TRUE, Undefined, Undefined)>>]
    ELSE checklist

ChecklistStages(f) ==
    NoExposureOverride([stage1 |-> Stage1Tasks(f),
                        stage2 |-> Stage2Tasks(f),
                        stage3 |-> Stage3Tasks(f),
                        stage4 |-> Stage4Tasks(f)], f)

generateChecklist(in, riskLevel, now) == ChecklistStages(ChecklistFacts(in, now))

\* ------------------------------------------------------------------------
\* generateAlerts
\* ------------------------------------------------------------------------
Alert(type, text) == [type |-> type, text |-> text]

\* The four guards of generateAlerts, each pushing at most one alert
NewOwnerAlert_NeedsExposure(in) ==
    Opt((in.blacklisted = "new" \/ in.blacklisted = "both")
            /\ (in.outstandingAR = "yes" \/ in.futureBookedShifts = "yes"),
        Alert("critical", "NEW OWNER IS BLACKLISTED: Must inform Erick, Gayah, and Mike Amicucci in #collections-team before proceeding. Mike will determine if services can continue."))

NewOwnerAlert(in) ==
    Opt(in.blacklisted = "new" \/ in.blacklisted = "both",
        Alert("critical", "NEW OWNER IS BLACKLISTED: Must inform Erick, Gayah, and Mike Amicucci in #collections-team before proceeding. Mike will determine if services can continue."))

OldOwnerAlert(in) ==
    Opt(in.blacklisted = "old",
        Alert("warning", "Old owner is blacklisted. If facility was previously blacklisted, follow Process of Reinstatement SOP. Accounts with debt under $5k and reliable payment history may be reinstated."))

BadDebtAlert(in) ==
    Opt(in.badDebt = "yes",
        Alert("warning", "Account is in Bad Debt (Handled by Internet Bad Debts Collections). Additional steps required before re-enrollment - see Bad Debt section of SOP."))

DistressAlert(in) ==
    Opt(in.financialDistress = "yes",
        Alert("warning", "Financial distress signals detected. Higher risk of non-payment. Consider escalating to Charlie for guidance on approach."))

generateAlerts(in) ==
    NewOwnerAlert(in) \o OldOwnerAlert(in) \o BadDebtAlert(in) \o DistressAlert(in)

\* ------------------------------------------------------------------------
\* formatForLinear, formatStageForLinear, generateStageMarkdown
\*
\* A document is the sequence of its lines; a line is the tuple of the
\* pieces the template literal concatenates.  A free-text field is the
\* sequence of its lines (what split('\n') returns): the empty string is
\* <<"">>.
\* ------------------------------------------------------------------------
StageIds == <<"stage1", "stage2", "stage3", "stage4">>

stageNames ==
    [stage1 |-> "Stage 1: Pre-Outreach",
     stage2 |-> "Stage 2: Outreach",
     stage3 |-> "Stage 3: Post-Outreach",
     stage4 |-> "Stage 4: Continuous"]

\* String.prototype.trim on the lines the model draws
trim(s) ==
    CASE s = " Facility B " -> "Facility B"
      [] s = " Facility B" -> "Facility B"
      [] OTHER -> s

\* A string is truthy when it is not empty
Truthy(text) == text # <<"">>

\* array.map(f) for a sequence
RECURSIVE MapLines(_, _)
MapLines(prefix, lines) ==
    IF lines = <<>> THEN <<>>
    ELSE <<<<prefix, trim(Head(lines))>>>> \o MapLines(prefix, Tail(lines))

\* A multi-line string interpolated as it is
RECURSIVE RawLines(_)
RawLines(lines) ==
    IF lines = <<>> THEN <<>>
    ELSE <<<<Head(lines)>>>> \o RawLines(Tail(lines))

\* One checklist line: checkbox, text and the note when it is truthy
TaskLine(task) ==
    <<"- ", IF task.completed THEN "[x]" ELSE "[ ]", " ", task.text>>
    \o (IF task.note \notin {Undefined, Null, ""} THEN <<" *(", task.note, ")*">> ELSE <<>>)

RECURSIVE TaskLines(_)
TaskLines(tasks) ==
    IF tasks = <<>> THEN <<>>
    ELSE <<TaskLine(Head(tasks))>> \o TaskLines(Tail(tasks))

\* formatForLinear, lines 848-861: the header
LinearHeader(in, timing) ==
    <<<<"## CHOW Details">>,
      <<"**Old Owner:** ", in.oldOwnerName>>,
      <<"**New Owner:** ", in.newOwnerName>>,
      <<"**Affected Facilities:**">>>>
    \o MapLines("- ", in.affectedFacilities)
    \o (IF Truthy(in.newFacilityNames)
        THEN <<<<"**New Facility Names:**">>>> \o MapLines("- ", in.newFacilityNames)
        ELSE <<>>)
    \o <<<<"**Acquisition Date:** ", ToString(in.acquisitionDate), " (", toUpperCase(timing), ")">>,
         <<"**Sale Type:** ", toUpperCase(in.saleType)>>>>
    \o (IF Truthy(in.newOwnerContact)
        THEN <<<<"**New Owner Contact:**">>>> \o RawLines(in.newOwnerContact)
        ELSE <<>>)
    \o <<<<"">>, <<"---">>, <<"">>>>

RECURSIVE NumberedActions(_, _)
NumberedActions(actions, i) ==
    IF actions = <<>> THEN <<>>
    ELSE <<<<ToString(i), ". ", Head(actions).text>>>> \o NumberedActions(Tail(actions), i + 1)

\* formatForLinear, lines 874-894: one section per stage that has tasks
RECURSIVE StageSections_NoSkip(_, _)
StageSections_NoSkip(checklist, ids) ==
    IF ids = <<>> THEN <<>>
    ELSE <<<<"### ", stageNames[Head(ids)]>>>>
         \o TaskLines(checklist[Head(ids)]) \o <<<<"">>>>
         \o StageSections_NoSkip(checklist, Tail(ids))

RECURSIVE StageSections(_, _)
StageSections(checklist, ids) ==
    IF ids = <<>> THEN <<>>
    ELSE (IF Len(checklist[Head(ids)]) = 0 THEN <<>>
          ELSE <<<<"### ", stageNames[Head(ids)]>>>>
               \o TaskLines(checklist[Head(ids)]) \o <<<<"">>>>)
         \o StageSections(checklist, Tail(ids))

RECURSIVE AlertLines(_)
AlertLines(alerts) ==
    IF alerts = <<>> THEN <<>>
    ELSE <<<<"- **", toUpperCase(Head(alerts).type), ":** ", Head(alerts).text>>>>
         \o AlertLines(Tail(alerts))

\* formatForLinear, lines 863-904: everything after the header
LinearBody(in, risk, checklist, priorityActions, alerts, now) ==
    <<<<"## Risk Assessment: ", toUpperCase(risk.level)>>, <<"">>,
      <<generateKeyFocus(in, risk.level, now)>>, <<"">>,
      <<"### Priority Actions">>>>
    \o NumberedActions(priorityActions, 1)
    \o <<<<"">>,
         <<"*Use your judgment and escalate to Louis Case or Charlie Eikenberg if the situation is unclear.*">>,
         <<"">>, <<"---">>, <<"">>>>
    \o StageSections(checklist, StageIds)
    \o (IF Len(alerts) > 0
        THEN <<<<"### Special Considerations">>>> \o AlertLines(alerts)
        ELSE <<>>)

RECURSIVE JoinLines(_)
JoinLines(lines) ==
    IF lines = <<>> THEN <<>>
    ELSE <<trim(Head(lines))>> \o (IF Len(lines) > 1 THEN <<", ">> ELSE <<>>)
         \o JoinLines(Tail(lines))

\* " -> " stands for the arrow between the two owner names
formatStageForLinear(stageName, stageTitle, tasks, in) ==
    <<<<"## ", stageTitle>>,
      <<"**CHOW:** ", in.oldOwnerName, " -> ", in.newOwnerName>>,
      <<"**Facilities:** ">> \o JoinLines(in.affectedFacilities)>>
    \o (IF Truthy(in.newFacilityNames)
        THEN <<<<"**New Names:** ">> \o JoinLines(in.newFacilityNames)>>
        ELSE <<>>)
    \o <<<<"">>, <<"---">>, <<"">>, <<"### Tasks">>>>
    \o TaskLines(tasks)

\* generateStageMarkdown: the returned object has a property for a stage
\* only when the stage has tasks
generateStageMarkdown(in, checklist) ==
    [stage \in {st \in {"stage1", "stage2", "stage3", "stage4"} : Len(checklist[st]) > 0} |->
        formatStageForLinear(stage, stageNames[stage], checklist[stage], in)]

\* ------------------------------------------------------------------------
\* process: the calls of one evaluation, in the order of the source
\* ------------------------------------------------------------------------
NoResult ==
    [risk |-> Undefined, scenario |-> Undefined, keyFocus |-> Undefined,
     priorityActions |-> Undefined, checklist |-> Undefined, alerts |-> Undefined,
     linearMarkdown |-> Undefined, stageMarkdown |-> Undefined]

NoTiming ==
    [calculateRisk |-> Undefined, generateScenarioDescription |-> Undefined,
     generateKeyFocus |-> Undefined, generatePriorityActions |-> Undefined,
     generateChecklist |-> Undefined, formatForLinear |-> Undefined,
     formatKeyFocus |-> Undefined]

\* ------------------------------------------------------------------------
\* The page after it has loaded with nothing in localStorage
\* ------------------------------------------------------------------------
\* The value of the date input when no date is chosen ('' in the source; the
\* days of the model are integers, so it is a day before day 0)
NoDate == -1

\* The form as the HTML builds it and as form.reset() leaves it: the defaults
\* restoreFormState falls back to (lines 250-263)
BlankForm ==
    [acquisitionDate |-> NoDate,
     saleType |-> "",
     contractSigned |-> "",
     outstandingAR |-> "",
     futureBookedShifts |-> "",
     financialDistress |-> "unknown",
     willingnessToPay |-> "unknown",
     blacklisted |-> "none",
     badDebt |-> "no",
     oldOwnerName |-> "",
     newOwnerName |-> "",
     affectedFacilities |-> <<"">>,
     newFacilityNames |-> <<"">>,
     newOwnerContact |-> <<"">>]

\* {} : an object without properties
EmptyObject == [st \in {} |-> <<>>]

PageLoaded ==
    /\ form = BlankForm
    /\ formState = <<>>
    /\ currentLinearMarkdown = <<>>
    /\ windowStageMarkdown = EmptyObject
    /\ outputDisplay = "none"
    /\ lastSubmit = <<>>
    /\ lastEvent = "load"

\* The settings of LinearIntegration before anything is saved (lines 9-15)
NoSettings == [apiKey |-> "", teamId |-> ""]

\* loadSettings (lines 18-29) and the state of the two dialogs after the
\* page has loaded with `stored` under 'chow-linear-settings'
LinearLoaded(stored) ==
    /\ storedSettings = stored
    /\ settings = (IF stored = <<>> THEN NoSettings ELSE stored[1])
    /\ apiKeyInput = ""
    /\ teams = <<>>
    /\ teamSelect = ""
    /\ statusDiv = ""
    /\ requests = <<>>
    /\ createIssueModal = FALSE
    /\ issueTitle = ""
    /\ confirmDisabled = FALSE
    /\ createIssueStatus = ""
    /\ createdShown = FALSE

Init ==
    /\ inputs \in CaseInputs
    /\ today = 0
    /\ pc = "calculateRisk"
    /\ timingOf = NoTiming
    /\ result = NoResult
    /\ PageLoaded
    /\ LinearLoaded(<<>>)

\* The date changes while the page is open
Tick ==
    /\ today < MaxDay
    /\ today' = today + 1
    /\ UNCHANGED <<inputs, pc, timingOf, result>>
    /\ UNCHANGED <<appVars, linearVars>>

ProcessCalculateRisk ==
    /\ pc = "calculateRisk"
    /\ result' = [result EXCEPT !.risk = calculateRisk(inputs, today)]
    /\ timingOf' = [timingOf EXCEPT !.calculateRisk = getTiming(inputs.acquisitionDate, today)]
    /\ pc' = "generateScenarioDescription"
    /\ UNCHANGED <<inputs, today>>
    /\ UNCHANGED <<appVars, linearVars>>

ProcessScenario ==
    /\ pc = "generateScenarioDescription"
    /\ result' = [result EXCEPT !.scenario = generateScenarioDescription(inputs, today)]
    /\ timingOf' = [timingOf EXCEPT !.generateScenarioDescription = getTiming(inputs.acquisitionDate, today)]
    /\ pc' = "generateKeyFocus"
    /\ UNCHANGED <<inputs, today>>
    /\ UNCHANGED <<appVars, linearVars>>

ProcessKeyFocus ==
    /\ pc = "generateKeyFocus"
    /\ result' = [result EXCEPT !.keyFocus = generateKeyFocus(inputs, result.risk.level, today)]
    /\ timingOf' = [timingOf EXCEPT !.generateKeyFocus = getTiming(inputs.acquisitionDate, today)]
    /\ pc' = "generatePriorityActions"
    /\ UNCHANGED <<inputs, today>>
    /\ UNCHANGED <<appVars, linearVars>>

ProcessPriorityActions ==
    /\ pc = "generatePriorityActions"
    /\ result' = [result EXCEPT
                    !.priorityActions = generatePriorityActions(inputs, result.risk.level, today)]
    /\ timingOf' = [timingOf EXCEPT !.generatePriorityActions = getTiming(inputs.acquisitionDate, today)]
    /\ pc' = "generateChecklist"
    /\ UNCHANGED <<inputs, today>>
    /\ UNCHANGED <<appVars, linearVars>>

ProcessChecklist ==
    /\ pc = "generateChecklist"
    /\ result' = [result EXCEPT !.checklist = generateChecklist(inputs, result.risk.level, today)]
    /\ timingOf' = [timingOf EXCEPT !.generateChecklist = getTiming(inputs.acquisitionDate, today)]
    /\ pc' = "generateAlerts"
    /\ UNCHANGED <<inputs, today>>
    /\ UNCHANGED <<appVars, linearVars>>

ProcessAlerts ==
    /\ pc = "generateAlerts"
    /\ result' = [result EXCEPT !.alerts = generateAlerts(inputs)]
    /\ pc' = "formatForLinear"
    /\ UNCHANGED <<inputs, today, timingOf>>
    /\ UNCHANGED <<appVars, linearVars>>

\* formatForLinear up to the risk assessment: it reads the clock for the header
ProcessFormatHeader ==
    /\ pc = "formatForLinear"
    /\ timingOf' = [timingOf EXCEPT !.formatForLinear = getTiming(inputs.acquisitionDate, today)]
    /\ result' = [result EXCEPT
                    !.linearMarkdown = LinearHeader(inputs, getTiming(inputs.acquisitionDate, today))]
    /\ pc' = "formatKeyFocus"
    /\ UNCHANGED <<inputs, today>>
    /\ UNCHANGED <<appVars, linearVars>>

\* formatForLinear from the risk assessment on: its generateKeyFocus call
\* reads the clock again
ProcessFormatBody ==
    /\ pc = "formatKeyFocus"
    /\ timingOf' = [timingOf EXCEPT !.formatKeyFocus = getTiming(inputs.acquisitionDate, today)]
    /\ result' = [result EXCEPT
                    !.linearMarkdown = @ \o LinearBody(inputs, result.risk, result.checklist,
                                                       result.priorityActions, result.alerts, today)]
    /\ pc' = "generateStageMarkdown"
    /\ UNCHANGED <<inputs, today>>
    /\ UNCHANGED <<appVars, linearVars>>

ProcessStageMarkdown ==
    /\ pc = "generateStageMarkdown"
    /\ result' = [result EXCEPT !.stageMarkdown = generateStageMarkdown(inputs, result.checklist)]
    /\ pc' = "return"
    /\ UNCHANGED <<inputs, today, timingOf>>
    /\ UNCHANGED <<appVars, linearVars>>

Next ==
    \/ Tick
    \/ ProcessCalculateRisk
    \/ ProcessScenario
    \/ ProcessKeyFocus
    \/ ProcessPriorityActions
    \/ ProcessChecklist
    \/ ProcessAlerts
    \/ ProcessFormatHeader
    \/ ProcessFormatBody
    \/ ProcessStageMarkdown

Spec == Init /\ [][Next]_vars

\* ------------------------------------------------------------------------
\* Evaluations whose free-text fields are filled in or left empty one by
\* one (the submit handler trims every field, so a field of blanks arrives
\* empty); the categorical fields the formatter does not depend on are held
\* at their baseline.
\* ------------------------------------------------------------------------
TextInputs ==
    [oldOwnerName : {"", "Old Owner LLC"},
     newOwnerName : {"", "New Owner Inc"},
     affectedFacilities : {<<"">>, <<"Facility A", " Facility B ">>},
     newFacilityNames : {<<"">>, <<"Facility A2">>},
     newOwnerContact : {<<"">>, <<"Jane Doe", "jane@example.com">>}]

FormatCategoricalInputs ==
    [acquisitionDate : Days,
     saleType : SaleTypes,
     contractSigned : {"yes"},
     outstandingAR : YesNo,
     futureBookedShifts : YesNo,
     financialDistress : {"unknown"},
     willingnessToPay : {"unknown"},
     blacklisted : {"none"},
     badDebt : {"no"}]

InitFormat ==
    /\ inputs \in {MakeInputs(c, t) : c \in FormatCategoricalInputs, t \in TextInputs}
    /\ today = 0
    /\ pc = "calculateRisk"
    /\ timingOf = NoTiming
    /\ result = NoResult
    /\ PageLoaded
    /\ LinearLoaded(<<>>)

SpecFormat == InitFormat /\ [][Next]_vars

\* ------------------------------------------------------------------------
\* Inputs with a categorical field outside its domain: process takes any
\* object, and neither the submit handler (app.js 45-63) nor process checks
\* a value before the cascade reads it. "" is the value of a select with
\* nothing chosen, "merger" a value no option has.
\* ------------------------------------------------------------------------
OutOfDomainCategoricalInputs ==
    [acquisitionDate : Days,
     saleType : SaleTypes \cup {"", "merger"},
     contractSigned : ContractValues \cup {""},
     outstandingAR : YesNo,
     futureBookedShifts : YesNo,
     financialDistress : {"unknown"},
     willingnessToPay : {"unknown"},
     blacklisted : {"none"},
     badDebt : {"no"}]

InitOutOfDomain ==
    /\ inputs \in {MakeInputs(c, TextFilled) : c \in OutOfDomainCategoricalInputs}
    /\ today = 0
    /\ pc = "calculateRisk"
    /\ timingOf = NoTiming
    /\ result = NoResult
    /\ PageLoaded
    /\ LinearLoaded(<<>>)

SpecOutOfDomain == InitOutOfDomain /\ [][Next]_vars

\* ========================================================================
\* The page: the form, its submit and clear handlers, and the form state
\* kept in localStorage (app.js)
\* ========================================================================
\* String.prototype.trim on the one-line values the form draws
trimValue(s) ==
    CASE s = " Old Owner LLC " -> "Old Owner LLC"
      [] s = "   " -> ""
      [] OTHER -> s

\* String.prototype.trimStart and trimEnd on the lines the form draws
trimStart(s) ==
    CASE s = " Facility B " -> "Facility B "
      [] s = "   " -> ""
      [] OTHER -> s

trimEnd(s) ==
    CASE s = " Facility B " -> " Facility B"
      [] s = "   " -> ""
      [] OTHER -> s

\* trim on the value of a textarea: the blanks before the first line and
\* after the last line go, the lines in between stay as typed
trimText(lines) ==
    IF Len(lines) = 1 THEN <<trimValue(lines[1])>>
    ELSE <<trimStart(Head(lines))>>
         \o SubSeq(lines, 2, Len(lines) - 1)
         \o <<trimEnd(lines[Len(lines)])>>

\* What the user may have typed into the free-text fields
FormTexts ==
    {[oldOwnerName |-> " Old Owner LLC ",
      newOwnerName |-> "New Owner Inc",
      affectedFacilities |-> <<"Facility A", " Facility B ">>,
      newFacilityNames |-> <<"   ">>,
      newOwnerContact |-> <<"Jane Doe", "jane@example.com">>],
     [oldOwnerName |-> "Old Owner LLC",
      newOwnerName |-> "New Owner Inc",
      affectedFacilities |-> <<"Facility A">>,
      newFacilityNames |-> <<"Facility A2">>,
      newOwnerContact |-> <<"">>]}

\* What the user may have chosen in the date input and the dropdowns
FormChoices ==
    [acquisitionDate : {MaxDay},
     saleType : {"asset", "stock"},
     contractSigned : {"yes"},
     outstandingAR : YesNo,
     futureBookedShifts : {"yes"},
     financialDistress : {"unknown"},
     willingnessToPay : {"unknown"},
     blacklisted : {"none"},
     badDebt : {"no"}]

\* The forms the browser lets the user submit (every required field set)
FilledForms == {MakeInputs(c, t) : c \in FormChoices, t \in FormTexts}

\* Lines 45-60: the input record the submit handler gathers from the form
gatherInputs(f) ==
    [f EXCEPT !.oldOwnerName = trimValue(@),
              !.newOwnerName = trimValue(@),
              !.affectedFacilities = trimText(@),
              !.newFacilityNames = trimText(@),
              !.newOwnerContact = trimText(@)]

\* The properties of the input record in the order of the object literal
FieldOrder ==
    <<"oldOwnerName", "newOwnerName", "affectedFacilities", "newFacilityNames",
      "newOwnerContact", "acquisitionDate", "saleType", "contractSigned",
      "outstandingAR", "futureBookedShifts", "financialDistress", "willingnessToPay",
      "blacklisted", "badDebt">>

\* JSON.stringify of an input record: its properties, name and value, in
\* their order
JSONstringify(in) == [i \in 1..Len(FieldOrder) |-> <<FieldOrder[i], in[FieldOrder[i]]>>]

\* JSON.parse: the object with the properties the text lists
JSONparse(json) ==
    [name \in {json[i][1] : i \in 1..Len(json)} |->
        json[CHOOSE i \in 1..Len(json) : json[i][1] = name][2]]

\* value || fallback, for a one-line value and for the value of a textarea
OrValue(value, fallback) == IF value = "" THEN fallback ELSE value

OrText(value, fallback) == IF value = <<"">> THEN fallback ELSE value

\* The same restore, the new owner's contact left as the page built it
restoreFormState_SkipsContact(current, stored) ==
    IF stored = <<>> THEN current
    ELSE LET saved == JSONparse(stored[1])
         IN  [saved EXCEPT !.newOwnerContact = current.newOwnerContact]

\* Lines 243-269: the form after restoreFormState has run on the form
\* `current` with `stored` under 'chow-form-state'
restoreFormState(current, stored) ==
    IF stored = <<>> THEN current
    ELSE LET saved == JSONparse(stored[1])
         IN  [oldOwnerName |-> OrValue(saved.oldOwnerName, ""),
              newOwnerName |-> OrValue(saved.newOwnerName, ""),
              affectedFacilities |-> OrText(saved.affectedFacilities, <<"">>),
              newFacilityNames |-> OrText(saved.newFacilityNames, <<"">>),
              newOwnerContact |-> OrText(saved.newOwnerContact, <<"">>),
              acquisitionDate |-> saved.acquisitionDate,
              saleType |-> OrValue(saved.saleType, ""),
              contractSigned |-> OrValue(saved.contractSigned, ""),
              outstandingAR |-> OrValue(saved.outstandingAR, ""),
              futureBookedShifts |-> OrValue(saved.futureBookedShifts, ""),
              financialDistress |-> OrValue(saved.financialDistress, "unknown"),
              willingnessToPay |-> OrValue(saved.willingnessToPay, "unknown"),
              blacklisted |-> OrValue(saved.blacklisted, "none"),
              badDebt |-> OrValue(saved.badDebt, "no")]

\* No handler is running
Idle == pc = "idle"

\* The user fills in or changes the form
FillForm ==
    /\ Idle
    /\ form' \in FilledForms \ {form}
    /\ lastEvent' = "input"
    /\ UNCHANGED <<formState, currentLinearMarkdown, windowStageMarkdown, outputDisplay,
                   lastSubmit>>
    /\ UNCHANGED <<engineVars, linearVars>>

\* The submit handler up to the call of process (lines 41-63)
Submit ==
    /\ Idle
    /\ form \in FilledForms
    /\ inputs' = gatherInputs(form)
    /\ pc' = "calculateRisk"
    /\ timingOf' = NoTiming
    /\ result' = NoResult
    /\ UNCHANGED today
    /\ UNCHANGED <<appVars, linearVars>>

\* The submit handler after process has returned (lines 65-79)
SubmitStore ==
    /\ pc = "return"
    /\ currentLinearMarkdown' = result.linearMarkdown
    /\ windowStageMarkdown' = result.stageMarkdown
    /\ outputDisplay' = "block"
    /\ formState' = <<JSONstringify(inputs)>>
    /\ lastSubmit' = <<inputs>>
    /\ lastEvent' = "submit"
    /\ pc' = "idle"
    /\ UNCHANGED <<form, inputs, today, timingOf, result>>
    /\ UNCHANGED linearVars

\* The click handler of the clear button (lines 229-235)
ClearForm ==
    /\ Idle
    /\ form' = BlankForm
    /\ outputDisplay' = "none"
    /\ formState' = <<>>
    /\ lastSubmit' = <<>>
    /\ lastEvent' = "clear"
    /\ UNCHANGED <<currentLinearMarkdown, windowStageMarkdown>>
    /\ UNCHANGED <<engineVars, linearVars>>

\* The page is loaded again: the HTML builds the form, the DOMContentLoaded
\* handler sets the two window properties (lines 14-15) and ends with
\* restoreFormState (line 272)
PageLoad ==
    /\ Idle
    /\ currentLinearMarkdown' = <<>>
    /\ windowStageMarkdown' = EmptyObject
    /\ outputDisplay' = "none"
    /\ form' = restoreFormState(BlankForm, formState)
    /\ lastEvent' = "load"
    /\ UNCHANGED <<formState, lastSubmit>>
    /\ UNCHANGED <<engineVars, linearVars>>

InitApp ==
    /\ inputs = MakeInputs(CHOOSE c \in FormChoices : TRUE, TextFilled)
    /\ today = 0
    /\ pc = "idle"
    /\ timingOf = NoTiming
    /\ result = NoResult
    /\ PageLoaded
    /\ LinearLoaded(<<>>)

NextApp ==
    \/ Tick
    \/ FillForm
    \/ Submit
    \/ ProcessCalculateRisk
    \/ ProcessScenario
    \/ ProcessKeyFocus
    \/ ProcessPriorityActions
    \/ ProcessChecklist
    \/ ProcessAlerts
    \/ ProcessFormatHeader
    \/ ProcessFormatBody
    \/ ProcessStageMarkdown
    \/ SubmitStore
    \/ ClearForm
    \/ PageLoad

SpecApp == InitApp /\ [][NextApp]_vars

\* ========================================================================
\* The ticketing integration: settings dialog (linear-integration.js)
\* ========================================================================
\* At most MaxInFlight requests are in flight at a time
MaxInFlight == 2

\* Keys the user may enter: two that the service accepts, one it rejects,
\* and one without the prefix the blur and paste handlers ask for
ApiKeys == {"lin_api_A", "lin_api_B", "lin_api_revoked"}

TypedKeys == ApiKeys \cup {"other"}

\* key.startsWith('lin_api_')
startsWithLinApi(key) == key \in ApiKeys

\* The teams the service lists for the keys it accepts
TeamsByKey ==
    [lin_api_A |-> <<"team-a">>,
     lin_api_B |-> <<"team-b">>]

\* The outcomes of a request: the data, or an error thrown by graphqlRequest
\* (HTTP status, lines 59-61, or a GraphQL error, lines 64-66)
Outcomes(request) ==
    IF request.authorization \in DOMAIN TeamsByKey THEN {"data", "error"} ELSE {"error"}

\* graphqlRequest up to the first await: the request leaves with the API key
\* the settings hold at that moment (line 54), here `apiKey`
graphqlRequest(query, caller, apiKey) ==
    [query |-> query, authorization |-> apiKey, caller |-> caller]

\* requests without its i-th element
RemoveAt(seq, i) == SubSeq(seq, 1, i - 1) \o SubSeq(seq, i + 1, Len(seq))

\* Line 73: the key the settings hold once testConnection has been called
testConnectionKey(apiKey) == apiKey

\* loadTeamsFromKey up to its first await (lines 301-306, testConnection
\* lines 72-86)
StartLoadTeams(key) ==
    /\ Len(requests) < MaxInFlight
    /\ statusDiv' = "Connecting to Linear..."
    /\ settings' = [settings EXCEPT !.apiKey = testConnectionKey(key)]
    /\ requests' = Append(requests, graphqlRequest("teams", "loadTeamsFromKey",
                                                   testConnectionKey(key)))

\* Lines 261-270: the settings dialog is opened with a key in the settings
OpenSettings ==
    /\ settings.apiKey # ""
    /\ apiKeyInput' = settings.apiKey
    /\ StartLoadTeams(settings.apiKey)
    /\ UNCHANGED <<storedSettings, teams, teamSelect>>
    /\ UNCHANGED <<createIssueModal, issueTitle, confirmDisabled, createIssueStatus, createdShown>>
    /\ UNCHANGED <<engineVars, appVars>>

\* Lines 285-290: the user has typed a key and leaves the input
ApiKeyBlur ==
    /\ \E key \in TypedKeys :
        /\ apiKeyInput' = key
        /\ IF startsWithLinApi(key)
           THEN StartLoadTeams(key)
           ELSE key # apiKeyInput /\ UNCHANGED <<statusDiv, settings, requests>>
    /\ UNCHANGED <<storedSettings, teams, teamSelect>>
    /\ UNCHANGED <<createIssueModal, issueTitle, confirmDisabled, createIssueStatus, createdShown>>
    /\ UNCHANGED <<engineVars, appVars>>

\* Lines 292-299: the user pastes a key; the timer of the paste handler
\* fires with the pasted value in the input
ApiKeyPaste ==
    /\ \E key \in ApiKeys :
        /\ apiKeyInput' = key
        /\ StartLoadTeams(key)
    /\ UNCHANGED <<storedSettings, teams, teamSelect>>
    /\ UNCHANGED <<createIssueModal, issueTitle, confirmDisabled, createIssueStatus, createdShown>>
    /\ UNCHANGED <<engineVars, appVars>>

\* The value of the team dropdown after its options were rebuilt from
\* `list` and the saved team was selected (lines 315-327)
PreselectedTeam(list) ==
    IF settings.teamId # "" /\ \E i \in 1..Len(list) : list[i] = settings.teamId
    THEN settings.teamId ELSE ""

\* loadTeamsFromKey after testConnection has settled (lines 306-339)
TeamsResponse ==
    /\ \E i \in 1..Len(requests) :
        /\ requests[i].query = "teams"
        /\ \E outcome \in Outcomes(requests[i]) :
            IF outcome = "data"
            THEN /\ teams' = TeamsByKey[requests[i].authorization]
                 /\ teamSelect' = PreselectedTeam(teams')
                 /\ IF settings.teamId # ""
                    THEN /\ requests' = Append(RemoveAt(requests, i),
                                               graphqlRequest("projects", "loadTeamsFromKey",
                                                              settings.apiKey))
                         /\ UNCHANGED statusDiv
                    ELSE /\ requests' = RemoveAt(requests, i)
                         /\ statusDiv' = "Connected! Select a team."
            ELSE /\ requests' = RemoveAt(requests, i)
                 /\ statusDiv' = "Connection failed"
                 /\ UNCHANGED <<teams, teamSelect>>
    /\ UNCHANGED <<settings, storedSettings, apiKeyInput>>
    /\ UNCHANGED <<createIssueModal, issueTitle, confirmDisabled, createIssueStatus, createdShown>>
    /\ UNCHANGED <<engineVars, appVars>>

\* loadProjectsForTeam after fetchProjects has settled (lines 354-374; an
\* error is caught there), and what its caller does next (lines 330-332)
ProjectsResponse ==
    /\ \E i \in 1..Len(requests) :
        /\ requests[i].query = "projects"
        /\ requests' = RemoveAt(requests, i)
        /\ IF requests[i].caller = "loadTeamsFromKey"
           THEN statusDiv' = "Connected! Select a team."
           ELSE UNCHANGED statusDiv
    /\ UNCHANGED <<settings, storedSettings, apiKeyInput, teams, teamSelect>>
    /\ UNCHANGED <<createIssueModal, issueTitle, confirmDisabled, createIssueStatus, createdShown>>
    /\ UNCHANGED <<engineVars, appVars>>

\* Lines 343-350: the user picks a team of the dropdown
SelectTeam ==
    /\ Len(requests) < MaxInFlight
    /\ \E i \in 1..Len(teams) :
        /\ teamSelect # teams[i]
        /\ teamSelect' = teams[i]
    /\ requests' = Append(requests, graphqlRequest("projects", "teamSelect", settings.apiKey))
    /\ UNCHANGED <<settings, storedSettings, apiKeyInput, teams, statusDiv>>
    /\ UNCHANGED <<createIssueModal, issueTitle, confirmDisabled, createIssueStatus, createdShown>>
    /\ UNCHANGED <<engineVars, appVars>>

\* Lines 378-408: the click handler of the save button; updateSettings
\* (lines 203-206) saves what it sets
SaveSettings ==
    /\ IF apiKeyInput = "" \/ teamSelect = ""
       THEN /\ statusDiv # "Please enter an API key and select a team."
            /\ statusDiv' = "Please enter an API key and select a team."
            /\ UNCHANGED <<settings, storedSettings>>
       ELSE /\ settings' = [apiKey |-> apiKeyInput, teamId |-> teamSelect]
            /\ storedSettings' = <<settings'>>
            /\ statusDiv' = "Settings saved!"
    /\ UNCHANGED <<apiKeyInput, teams, teamSelect, requests>>
    /\ UNCHANGED <<createIssueModal, issueTitle, confirmDisabled, createIssueStatus, createdShown>>
    /\ UNCHANGED <<engineVars, appVars>>

\* Lines 411-421: the click handler of the disconnect button, shown when
\* connected; clearSettings (lines 37-46)
Disconnect ==
    /\ settings.apiKey # "" /\ settings.teamId # ""
    /\ settings' = NoSettings
    /\ storedSettings' = <<>>
    /\ apiKeyInput' = ""
    /\ teamSelect' = ""
    /\ statusDiv' = ""
    /\ UNCHANGED <<teams, requests>>
    /\ UNCHANGED <<createIssueModal, issueTitle, confirmDisabled, createIssueStatus, createdShown>>
    /\ UNCHANGED <<engineVars, appVars>>

\* The page has loaded, with or without saved settings
InitLinearSettings ==
    /\ inputs = MakeInputs(CHOOSE c \in FormChoices : TRUE, TextFilled)
    /\ today = 0
    /\ pc = "idle"
    /\ timingOf = NoTiming
    /\ result = NoResult
    /\ PageLoaded
    /\ \E stored \in {<<>>, <<[apiKey |-> "lin_api_A", teamId |-> "team-a"]>>} :
        LinearLoaded(stored)

NextLinearSettings ==
    \/ OpenSettings
    \/ ApiKeyBlur
    \/ ApiKeyPaste
    \/ TeamsResponse
    \/ ProjectsResponse
    \/ SelectTeam
    \/ SaveSettings
    \/ Disconnect

SpecLinearSettings == InitLinearSettings /\ [][NextLinearSettings]_vars

\* ========================================================================
\* The ticketing integration: create-issue modal (linear-integration.js)
\* ========================================================================
\* process, every call reading the clock on the same day
process(in, now) ==
    LET risk == calculateRisk(in, now)
        priorityActions == generatePriorityActions(in, risk.level, now)
        checklist == generateChecklist(in, risk.level, now)
        alerts == generateAlerts(in)
    IN  [risk |-> risk,
         scenario |-> generateScenarioDescription(in, now),
         keyFocus |-> generateKeyFocus(in, risk.level, now),
         priorityActions |-> priorityActions,
         checklist |-> checklist,
         alerts |-> alerts,
         linearMarkdown |-> LinearHeader(in, getTiming(in.acquisitionDate, now))
                            \o LinearBody(in, risk, checklist, priorityActions, alerts, now),
         stageMarkdown |-> generateStageMarkdown(in, checklist)]

\* The page after the form `f` has been submitted on day `now`
PlanGenerated(f, now) ==
    /\ form = f
    /\ inputs = gatherInputs(f)
    /\ today = now
    /\ pc = "idle"
    /\ timingOf = [call \in DOMAIN NoTiming |-> getTiming(inputs.acquisitionDate, now)]
    /\ result = process(inputs, now)
    /\ formState = <<JSONstringify(inputs)>>
    /\ currentLinearMarkdown = result.linearMarkdown
    /\ windowStageMarkdown = result.stageMarkdown
    /\ outputDisplay = "block"
    /\ lastSubmit = <<inputs>>
    /\ lastEvent = "submit"

\* Lines 193-195
isConnected == settings.apiKey # "" /\ settings.teamId # ""

\* Lines 478-480: the title the modal is opened with
PrefilledTitle ==
    <<"CHOW: ", OrValue(form.oldOwnerName, "Unknown"), " -> ",
      OrValue(form.newOwnerName, "Unknown")>>

\* What the user may leave in the title input: nothing, blanks, or a title
Titles == {<<>>, <<"   ">>, PrefilledTitle}

\* issueTitleInput.value.trim() is empty (line 534)
TitleEmpty(title) == title \in {<<>>, <<"   ">>}

\* The same button, left enabled while the request is in flight
CreatingDisabled_Not == FALSE

\* Line 541: confirmCreateIssueBtn.disabled while the issue is created
CreatingDisabled == TRUE

\* Lines 461-493: the click handler of the '+ Linear' button up to its
\* await, when connected and with a generated plan (otherwise it only opens
\* the settings dialog or shows a toast); the two fetches of Promise.all are
\* one request here
CreateLinearClick ==
    /\ isConnected
    /\ currentLinearMarkdown # <<>>
    /\ Len(requests) < MaxInFlight
    /\ issueTitle' = PrefilledTitle
    /\ createIssueStatus' = "Loading options..."
    /\ requests' = Append(requests, graphqlRequest("options", "createLinearIssue",
                                                   settings.apiKey))
    /\ UNCHANGED <<createIssueModal, confirmDisabled, createdShown>>
    /\ UNCHANGED <<settings, storedSettings, apiKeyInput, teams, teamSelect, statusDiv>>
    /\ UNCHANGED <<engineVars, appVars>>

\* Lines 494-526: the options have arrived or failed to; the modal is shown
OptionsResponse ==
    /\ \E i \in 1..Len(requests) :
        /\ requests[i].query = "options"
        /\ requests' = RemoveAt(requests, i)
        /\ \E outcome \in Outcomes(requests[i]) :
            createIssueStatus' =
                (IF outcome = "data" THEN "" ELSE "Could not load all options")
    /\ createIssueModal' = TRUE
    /\ UNCHANGED <<issueTitle, confirmDisabled, createdShown>>
    /\ UNCHANGED <<settings, storedSettings, apiKeyInput, teams, teamSelect, statusDiv>>
    /\ UNCHANGED <<engineVars, appVars>>

\* The user edits the title in the open modal
EditTitle ==
    /\ createIssueModal
    /\ issueTitle' \in Titles \ {issueTitle}
    /\ UNCHANGED <<createIssueModal, confirmDisabled, createIssueStatus, createdShown, requests>>
    /\ UNCHANGED <<settings, storedSettings, apiKeyInput, teams, teamSelect, statusDiv>>
    /\ UNCHANGED <<engineVars, appVars>>

\* Lines 532-560: the click handler of the confirm button up to its await;
\* a disabled button receives no click
ConfirmCreateIssue ==
    /\ createIssueModal
    /\ ~confirmDisabled
    /\ IF TitleEmpty(issueTitle)
       THEN /\ createIssueStatus' = "Please enter a title"
            /\ UNCHANGED <<confirmDisabled, requests>>
       ELSE /\ Len(requests) < MaxInFlight
            /\ confirmDisabled' = CreatingDisabled
            /\ requests' = Append(requests, graphqlRequest("issueCreate", "confirmCreateIssue",
                                                           settings.apiKey))
            /\ UNCHANGED createIssueStatus
    /\ UNCHANGED <<createIssueModal, issueTitle, createdShown>>
    /\ UNCHANGED <<settings, storedSettings, apiKeyInput, teams, teamSelect, statusDiv>>
    /\ UNCHANGED <<engineVars, appVars>>

\* Lines 556-588: createIssue has settled
IssueResponse ==
    /\ \E i \in 1..Len(requests) :
        /\ requests[i].query = "issueCreate"
        /\ requests' = RemoveAt(requests, i)
        /\ \E outcome \in Outcomes(requests[i]) :
            IF outcome = "data"
            THEN /\ createIssueModal' = FALSE
                 /\ createIssueStatus' = ""
                 /\ createdShown' = TRUE
            ELSE /\ createIssueStatus' = "Error: Failed to create issue"
                 /\ UNCHANGED <<createIssueModal, createdShown>>
    /\ confirmDisabled' = FALSE
    /\ UNCHANGED issueTitle
    /\ UNCHANGED <<settings, storedSettings, apiKeyInput, teams, teamSelect, statusDiv>>
    /\ UNCHANGED <<engineVars, appVars>>

\* Lines 438-456: the modal is closed by its close button, its cancel
\* button or a click outside
CloseCreateIssue ==
    /\ createIssueModal
    /\ createIssueModal' = FALSE
    /\ createIssueStatus' = ""
    /\ UNCHANGED <<issueTitle, confirmDisabled, createdShown, requests>>
    /\ UNCHANGED <<settings, storedSettings, apiKeyInput, teams, teamSelect, statusDiv>>
    /\ UNCHANGED <<engineVars, appVars>>

\* Lines 568-579: the timers that take the 'Created' feedback away
FeedbackTimeout ==
    /\ createdShown
    /\ createdShown' = FALSE
    /\ UNCHANGED <<createIssueModal, issueTitle, confirmDisabled, createIssueStatus, requests>>
    /\ UNCHANGED <<settings, storedSettings, apiKeyInput, teams, teamSelect, statusDiv>>
    /\ UNCHANGED <<engineVars, appVars>>

\* A plan has been generated and the integration is connected
InitCreateIssue ==
    /\ \E f \in FilledForms : PlanGenerated(f, 0)
    /\ LinearLoaded(<<[apiKey |-> "lin_api_A", teamId |-> "team-a"]>>)

NextCreateIssue ==
    \/ CreateLinearClick
    \/ OptionsResponse
    \/ EditTitle
    \/ ConfirmCreateIssue
    \/ IssueResponse
    \/ CloseCreateIssue
    \/ FeedbackTimeout

SpecCreateIssue == InitCreateIssue /\ [][NextCreateIssue]_vars

\* ========================================================================
\* Properties of the classifier (calculateRisk)
\* ========================================================================
\* The calls of process in their order; a call has returned when the
\* position of process is past it
CallOrder ==
    <<"calculateRisk", "generateScenarioDescription", "generateKeyFocus",
      "generatePriorityActions", "generateChecklist", "generateAlerts",
      "formatForLinear", "formatKeyFocus", "generateStageMarkdown", "return">>

Position(call) == CHOOSE i \in 1..Len(CallOrder) : CallOrder[i] = call

Returned(call) == Position(pc) > Position(call)

RiskComputed == Returned("calculateRisk")
HasExposure == inputs.outstandingAR = "yes" \/ inputs.futureBookedShifts = "yes"
NewOwnerBlacklisted == inputs.blacklisted \in {"new", "both"}

\* C1 -- Totality: for every combination of the categorical fields and both
\* timing values, calculateRisk returns exactly one level of low, medium,
\* high, with a reasons list of at least one entry.
C1_Totality ==
    RiskComputed =>
        /\ result.risk.level \in Levels
        /\ Len(result.risk.reasons) >= 1

\* The default clause has decided an input (the last way out of the cascade)
C1_Witness ==
    /\ RiskComputed
    /\ timingOf.calculateRisk = "past"
    /\ result.risk = Risk("medium", <<"Standard CHOW scenario - follow normal process">>)

C3_StockContractLow ==
    (RiskComputed /\ inputs.saleType = "stock" /\ inputs.contractSigned = "yes"
        /\ ~NewOwnerBlacklisted) =>
        result.risk.level = "low"

C3_Witness ==
    /\ RiskComputed
    /\ inputs.saleType = "stock"
    /\ inputs.contractSigned = "yes"
    /\ inputs.blacklisted = "old"
    /\ inputs.outstandingAR = "yes"
    /\ inputs.financialDistress = "yes"
    /\ inputs.willingnessToPay = "no"
    /\ inputs.badDebt = "yes"
    /\ timingOf.calculateRisk = "past"
    /\ result.risk.level = "low"

C6_BlacklistedExposureHigh ==
    (RiskComputed /\ NewOwnerBlacklisted /\ HasExposure) =>
        result.risk.level = "high"

C6_Witness ==
    /\ RiskComputed
    /\ inputs.blacklisted = "new"
    /\ inputs.futureBookedShifts = "yes"
    /\ inputs.saleType = "asset"
    /\ inputs.contractSigned = "yes"
    /\ timingOf.calculateRisk = "future"
    /\ result.risk.level = "high"

\* C7 -- Clause 3 wins over the later clauses: with exposure, timing
\* future, a signed contract and a new owner who is not blacklisted, the
\* level is medium for an asset sale with outstanding AR and low otherwise,
\* also when distress, unwillingness to pay or bad debt is present.
C7_FutureContract ==
    (RiskComputed /\ HasExposure /\ timingOf.calculateRisk = "future"
        /\ inputs.contractSigned = "yes" /\ ~NewOwnerBlacklisted) =>
        result.risk.level =
            (IF inputs.saleType = "asset" /\ inputs.outstandingAR = "yes"
             THEN "medium" ELSE "low")

C7_Witness ==
    /\ RiskComputed
    /\ timingOf.calculateRisk = "future"
    /\ inputs.contractSigned = "yes"
    /\ inputs.blacklisted = "none"
    /\ inputs.saleType = "asset"
    /\ inputs.outstandingAR = "yes"
    /\ inputs.financialDistress = "yes"
    /\ inputs.willingnessToPay = "no"
    /\ inputs.badDebt = "yes"
    /\ result.risk.level = "medium"

\* C8 -- Past change of ownership without a binding contract and with
\* exposure: timing past, contractSigned no or unknown and AR or FBS give
\* high.
C8_PastNoContractHigh ==
    (RiskComputed /\ timingOf.calculateRisk = "past"
        /\ inputs.contractSigned \in {"no", "unknown"} /\ HasExposure) =>
        result.risk.level = "high"

C8_Witness ==
    /\ RiskComputed
    /\ timingOf.calculateRisk = "past"
    /\ inputs.contractSigned = "unknown"
    /\ inputs.saleType = "asset"
    /\ inputs.outstandingAR = "yes"
    /\ inputs.blacklisted = "none"
    /\ inputs.financialDistress = "no"
    /\ inputs.willingnessToPay = "yes"
    /\ inputs.badDebt = "no"
    /\ result.risk.level = "high"

\* C9 -- High risk requires exposure and a danger signal: whenever the level
\* is high, AR or FBS exists and one of these holds: new owner blacklisted,
\* past timing without a signed contract, financialDistress=yes,
\* willingnessToPay=no, unknown sale type, badDebt=yes.
DangerSignal ==
    \/ NewOwnerBlacklisted
    \/ (timingOf.calculateRisk = "past" /\ inputs.contractSigned # "yes")
    \/ inputs.financialDistress = "yes"
    \/ inputs.willingnessToPay = "no"
    \/ inputs.saleType = "unknown"
    \/ inputs.badDebt = "yes"

C9_HighNeedsExposureAndDanger ==
    (RiskComputed /\ result.risk.level = "high") => (HasExposure /\ DangerSignal)

\* High by the bad-debt clause alone: no other danger signal is present
C9_Witness ==
    /\ RiskComputed
    /\ result.risk.level = "high"
    /\ timingOf.calculateRisk = "future"
    /\ inputs.saleType = "stock"
    /\ inputs.contractSigned = "no"
    /\ inputs.badDebt = "yes"
    /\ inputs.blacklisted = "none"
    /\ inputs.financialDistress = "no"
    /\ inputs.willingnessToPay = "yes"

\* ========================================================================
\* Properties of the priority actions and of the checklist
\* ========================================================================
ActionsComputed == Returned("generatePriorityActions")
ChecklistComputed == Returned("generateChecklist")

\* The sample fixture, evaluated with a past acquisition date
SampleFixture ==
    /\ inputs.saleType = "stock"
    /\ inputs.contractSigned = "yes"
    /\ inputs.outstandingAR = "no"
    /\ inputs.futureBookedShifts = "no"
    /\ inputs.blacklisted = "none"
    /\ timingOf.calculateRisk = "past"
    /\ timingOf.generatePriorityActions = "past"

UpdateAccountAction ==
    Action("Update account information across all platforms (Salesforce, CBH App, Invoiced)", "high")

Includes(seq, x) == \E i \in 1..Len(seq) : seq[i] = x

\* C5 as stated -- for the sample fixture process returns risk.level=low
\* and priority actions that include the 'Update account information across
\* all platforms' action with confidence high.
C5_Original ==
    (ActionsComputed /\ SampleFixture) =>
        /\ result.risk.level = "low"
        /\ Includes(result.priorityActions, UpdateAccountAction)

\* C5 as amended -- for the sample fixture process returns risk.level=low
\* and exactly the three no-exposure actions (alert leadership, archive the
\* account, standard new customer onboarding), each with confidence high;
\* the 'Update account information across all platforms' action with
\* confidence high is included when the same input has outstandingAR=yes or
\* futureBookedShifts=yes instead.
C5_SampleFixture ==
    /\ (ActionsComputed /\ SampleFixture) =>
        /\ result.risk.level = "low"
        /\ result.priorityActions =
            <<Action("Alert leadership of the CHOW", "high"),
              Action("Archive the account to prevent posting under new ownership without contract", "high"),
              Action("Sales treats this as standard new customer onboarding if they want to continue", "high")>>
        /\ ~Includes(result.priorityActions, UpdateAccountAction)
    /\ (ActionsComputed /\ inputs.saleType = "stock" /\ inputs.contractSigned = "yes"
            /\ inputs.blacklisted = "none" /\ HasExposure
            /\ timingOf.calculateRisk = "past" /\ timingOf.generatePriorityActions = "past") =>
        /\ result.risk.level = "low"
        /\ Includes(result.priorityActions, UpdateAccountAction)

\* process has returned for the sample fixture
C5_Witness ==
    /\ pc = "return"
    /\ SampleFixture
    /\ result.risk.level = "low"
    /\ Len(result.priorityActions) = 3

\* C10 -- Checklist no-exposure override: with outstandingAR=no and
\* futureBookedShifts=no, stage2, stage3 and stage4 have exactly one task
\* each, the stage4 task is completed, and none of the tasks appended
\* earlier to stages 2-4 survives, whatever the other fields and the level.
Texts(tasks) == {tasks[i].text : i \in 1..Len(tasks)}

AppendedTexts ==
    LET f == ChecklistFacts(inputs, today)
    IN  Texts(Stage2Tasks(f)) \cup Texts(Stage3Tasks(f)) \cup Texts(Stage4Tasks(f))

C10_ChecklistOverride ==
    (ChecklistComputed /\ ~HasExposure) =>
        /\ Len(result.checklist.stage2) = 1
        /\ Len(result.checklist.stage3) = 1
        /\ Len(result.checklist.stage4) = 1
        /\ result.checklist.stage4[1].completed = TRUE
        /\ (Texts(result.checklist.stage2) \cup Texts(result.checklist.stage3)
                \cup Texts(result.checklist.stage4)) \cap AppendedTexts = {}

\* The override has replaced a stage 3 that held the bad-debt tasks of a
\* stock sale
C10_Witness ==
    /\ ChecklistComputed
    /\ ~HasExposure
    /\ inputs.saleType = "stock"
    /\ inputs.badDebt = "yes"
    /\ inputs.financialDistress = "yes"
    /\ inputs.contractSigned = "no"
    /\ result.risk.level = "low"
    /\ Len(Stage3Tasks(ChecklistFacts(inputs, today))) = 6
    /\ Len(result.checklist.stage3) = 1

\* ========================================================================
\* Properties of the alerts
\* ========================================================================
AlertsComputed == Returned("generateAlerts")

NewOwnerAlertValue ==
    Alert("critical", "NEW OWNER IS BLACKLISTED: Must inform Erick, Gayah, and Mike Amicucci in #collections-team before proceeding. Mike will determine if services can continue.")

OldOwnerAlertValue ==
    Alert("warning", "Old owner is blacklisted. If facility was previously blacklisted, follow Process of Reinstatement SOP. Accounts with debt under $5k and reliable payment history may be reinstated.")

BadDebtAlertValue ==
    Alert("warning", "Account is in Bad Debt (Handled by Internet Bad Debts Collections). Additional steps required before re-enrollment - see Bad Debt section of SOP.")

DistressAlertValue ==
    Alert("warning", "Financial distress signals detected. Higher risk of non-payment. Consider escalating to Charlie for guidance on approach.")

C12_Original ==
    AlertsComputed =>
        result.alerts =
            Opt(inputs.blacklisted \in {"new", "both"}, NewOwnerAlertValue)
            \o Opt(inputs.blacklisted \in {"old", "both"}, OldOwnerAlertValue)
            \o Opt(inputs.badDebt = "yes", BadDebtAlertValue)
            \o Opt(inputs.financialDistress = "yes", DistressAlertValue)

\* ========================================================================
\* Properties of the clock reads of one evaluation
\* ========================================================================
\* C14 as stated -- The current date is read once per evaluation: the timing
\* value used by the classifier, the scenario label, the key focus, the
\* priority actions, the checklist and the formatter of one process call is
\* the same, even when the date boundary passes while the call is running.
C14_Original ==
    pc = "return" =>
        \A call \in DOMAIN timingOf : timingOf[call] = timingOf.calculateRisk

\* ========================================================================
\* Properties of the rendered documents
\* ========================================================================
HeaderRendered == Returned("formatForLinear")

\* The document has a line that starts with the label
HasLine(doc, label) == \E i \in 1..Len(doc) : doc[i][1] = label

\* C15 as stated -- Fields with no content are omitted: in the aggregate
\* document the line of each of oldOwnerName, newOwnerName,
\* affectedFacilities, newFacilityNames and newOwnerContact is rendered only
\* when the field is non-empty; no field is rendered with an empty value.
C15_Original ==
    HeaderRendered =>
        /\ HasLine(result.linearMarkdown, "**Old Owner:** ") => inputs.oldOwnerName # ""
        /\ HasLine(result.linearMarkdown, "**New Owner:** ") => inputs.newOwnerName # ""
        /\ HasLine(result.linearMarkdown, "**Affected Facilities:**")
            => Truthy(inputs.affectedFacilities)
        /\ HasLine(result.linearMarkdown, "**New Facility Names:**")
            => Truthy(inputs.newFacilityNames)
        /\ HasLine(result.linearMarkdown, "**New Owner Contact:**")
            => Truthy(inputs.newOwnerContact)

\* C16 -- Conditional inclusion of stages and alerts: generateStageMarkdown
\* has an entry for a stage exactly when that stage of the checklist has at
\* least one task, the aggregate document has a section for exactly the same
\* stages in the order stage1, stage2, stage3, stage4, and the 'Special
\* Considerations' section is present exactly when the alert list is
\* non-empty.
IsStageTitle(line) == line[1] = "### "

StagesWithTasks ==
    {st \in {"stage1", "stage2", "stage3", "stage4"} : Len(result.checklist[st]) > 0}

TitlesOfStagesWithTasks ==
    Opt("stage1" \in StagesWithTasks, <<"### ", "Stage 1: Pre-Outreach">>)
    \o Opt("stage2" \in StagesWithTasks, <<"### ", "Stage 2: Outreach">>)
    \o Opt("stage3" \in StagesWithTasks, <<"### ", "Stage 3: Post-Outreach">>)
    \o Opt("stage4" \in StagesWithTasks, <<"### ", "Stage 4: Continuous">>)

C16_ConditionalInclusion ==
    pc = "return" =>
        /\ DOMAIN result.stageMarkdown = StagesWithTasks
        /\ SelectSeq(result.linearMarkdown, IsStageTitle) = TitlesOfStagesWithTasks
        /\ HasLine(result.linearMarkdown, "### Special Considerations")
            <=> Len(result.alerts) > 0

\* An evaluation with an empty continuous stage and no alert
C16_Witness ==
    /\ pc = "return"
    /\ Len(result.checklist.stage4) = 0
    /\ DOMAIN result.stageMarkdown = {"stage1", "stage2", "stage3"}
    /\ result.alerts = <<>>
    /\ ~HasLine(result.linearMarkdown, "### Special Considerations")

\* ========================================================================
\* Further properties of the checklist
\* ========================================================================
\* C17 -- Stage 1 shape: stage1 consists of exactly five tasks in the order
\* AR status, FBS status, timing, sale type, bad-debt check; the first four
\* are completed and carry a note restating the fact; the bad-debt check is
\* completed both for badDebt=yes (with a note) and for badDebt=no; the
\* no-exposure override leaves stage1 unchanged.
C17_Stage1Shape ==
    ChecklistComputed =>
        LET s1 == result.checklist.stage1
        IN  /\ Len(s1) = 5
            /\ s1[1].text = "Confirm outstanding AR status"
            /\ s1[2].text = "Confirm future booked shifts (FBS)"
            /\ s1[3].text = "Confirm acquisition date and timing"
            /\ s1[4].text = "Determine sale type"
            /\ s1[5].text = "Check if account is in bad debt collections"
            /\ \A i \in 1..4 : s1[i].completed = TRUE
            /\ s1[1].note = (IF inputs.outstandingAR = "yes"
                             THEN "Yes - has outstanding AR" ELSE "No outstanding AR")
            /\ s1[2].note = (IF inputs.futureBookedShifts = "yes" THEN "Yes - has FBS" ELSE "No FBS")
            /\ s1[3].note = toUpperCase(timingOf.generateChecklist)
            /\ s1[4].note = toUpperCase(inputs.saleType)
            /\ s1[5].completed = TRUE
            /\ (inputs.badDebt = "yes" => s1[5].note = "YES - in bad debt")

\* The override has run for an input that is not in bad debt
C17_Witness ==
    /\ ChecklistComputed
    /\ ~HasExposure
    /\ inputs.badDebt = "no"
    /\ Len(result.checklist.stage2) = 1
    /\ Len(result.checklist.stage1) = 5
    /\ result.checklist.stage1[5].completed = TRUE

NoExposureExpected ==
    <<Action("Alert leadership of the CHOW", "high"),
      Action("Archive the account to prevent posting under new ownership without contract", "high"),
      IF NewOwnerBlacklisted
      THEN Action("Inform collections team - new owner is blacklisted, relationship cannot continue", "high")
      ELSE Action("Sales treats this as standard new customer onboarding if they want to continue", "high")>>

EscalationExpected ==
    <<Action("Check CBH App for upcoming shifts at affected facilities and document them", "high"),
      Action("Inform Erick, Gayah, and Mike Amicucci in #collections-team immediately", "high"),
      Action("Wait for Mike to assess risk and determine if services can continue", "high")>>

C19_ActionPrecedence ==
    ActionsComputed =>
        /\ ~HasExposure =>
            /\ result.priorityActions = NoExposureExpected
            /\ \A level \in Levels :
                generatePriorityActions(inputs, level, today) = NoExposureExpected
        /\ (HasExposure /\ NewOwnerBlacklisted) =>
            /\ result.priorityActions = EscalationExpected
            /\ \A level \in Levels :
                generatePriorityActions(inputs, level, today) = EscalationExpected

\* process has produced the escalation actions for a past CHOW without
\* contract (the first high-risk branch would also apply)
C19_Witness ==
    /\ ActionsComputed
    /\ HasExposure
    /\ inputs.blacklisted = "new"
    /\ inputs.contractSigned = "no"
    /\ timingOf.generatePriorityActions = "past"
    /\ result.risk.level = "high"
    /\ Len(result.priorityActions) = 3
    /\ result.priorityActions[3].text = "Wait for Mike to assess risk and determine if services can continue"

\* ========================================================================
\* Input outside the declared domains
\* ========================================================================
OutOfDomain ==
    \/ inputs.saleType \notin SaleTypes
    \/ inputs.contractSigned \notin ContractValues

\* C20 -- Out-of-domain input fails fast: when a categorical field holds a
\* value outside its declared domain (an empty or unrecognized saleType or
\* contractSigned), the core rejects the input and returns no risk level,
\* instead of falling through the cascade to some branch.
C20_Original ==
    OutOfDomain => ~(RiskComputed /\ result.risk.level \in Levels)

\* ========================================================================
\* Reach of the clauses of calculateRisk
\* ========================================================================
\* The reasons of clauses 11, 13, 14 and 15
ShadowedReasons ==
    {"Stock sale without contract - new owner would assume debt but needs to commit",
     "Unknown willingness to pay with outstanding AR",
     "Old owner blacklisted - may affect collection of pre-sale debt",
     "Contract status unknown with financial exposure"}

\* C23 -- Unreachable medium clauses: for every in-domain input and both
\* timing values, calculateRisk is never decided by clause 11 (stock sale +
\* no contract + exposure), clause 13 (unknown willingness + AR), clause 14
\* (old owner blacklisted + AR + asset sale) or clause 15 (unknown contract
\* + exposure): their reasons never appear in a returned reasons list.
C23_ShadowedClauses ==
    RiskComputed =>
        \A i \in 1..Len(result.risk.reasons) : result.risk.reasons[i] \notin ShadowedReasons

\* A future stock sale with unknown contract, AR and unknown willingness:
\* the guards of clauses 11, 13 and 15 hold, and clause 10 has decided
C23_Witness ==
    /\ RiskComputed
    /\ timingOf.calculateRisk = "future"
    /\ inputs.saleType = "stock"
    /\ inputs.contractSigned = "unknown"
    /\ inputs.outstandingAR = "yes"
    /\ inputs.willingnessToPay = "unknown"
    /\ ~NewOwnerBlacklisted
    /\ result.risk.reasons[1] = "Future CHOW without signed contract but time to act"

\* The inputs no clause of the cascade matches
DefaultCase ==
    /\ timingOf.calculateRisk = "past"
    /\ inputs.saleType = "asset"
    /\ inputs.contractSigned = "yes"
    /\ inputs.outstandingAR = "no"
    /\ inputs.futureBookedShifts = "yes"
    /\ inputs.blacklisted \in {"none", "old"}

\* C24 -- Exact reach of the default clause: calculateRisk returns the
\* default result (medium with the single reason 'Standard CHOW scenario -
\* follow normal process') exactly for timing past, saleType asset,
\* contractSigned yes, outstandingAR no, futureBookedShifts yes and
\* blacklisted none or old, for any financialDistress, willingnessToPay and
\* badDebt, and for no other input.
C24_DefaultReach ==
    RiskComputed =>
        (result.risk = Risk("medium", <<"Standard CHOW scenario - follow normal process">>)
            <=> DefaultCase)

\* The default has decided an input with distress, unwillingness to pay,
\* bad debt and a blacklisted old owner
C24_Witness ==
    /\ RiskComputed
    /\ DefaultCase
    /\ inputs.financialDistress = "yes"
    /\ inputs.willingnessToPay = "no"
    /\ inputs.badDebt = "yes"
    /\ inputs.blacklisted = "old"
    /\ result.risk.reasons = <<"Standard CHOW scenario - follow normal process">>

\* ========================================================================
\* Key focus against the classified level
\* ========================================================================
KeyFocusComputed == Returned("generateKeyFocus")

\* The key focus strings by the level their first words name
LowFocus ==
    {"Low risk situation. No immediate financial exposure. Archive the old account and treat as standard new customer onboarding if they want to continue with Clipboard."}

MediumFocus ==
    {"Medium risk. CHOW is upcoming which gives time to act. Focus on confirming who is responsible for pre-sale debt and getting a new contract signed before the transition date.",
     "Medium risk. Contract is in place but pre-sale AR needs attention. Create new account for old entity, transfer pre-sale invoices, and establish clear payment expectations with old owner."}

HighFocus ==
    {"High-risk scenario. Old owner shows signs of financial distress and is unlikely to pay. Immediate action needed: PEND the account now, attempt contact to assess situation, and escalate to Charlie if no response.",
     "High-risk scenario. Ownership already changed with no contract and money owed. PEND immediately. Call old and new owners to understand the situation and determine path forward. Focus on securing a new contract or shutting down services.",
     "Critical: New owner is blacklisted. Check for upcoming shifts and inform collections team (Erick, Gayah, Mike Amicucci). Mike will assess risk and determine if services can continue.",
     "High-risk scenario. Future shifts are booked but no contract in place. PEND immediately to prevent additional exposure. Contact both parties urgently to clarify contract status."}

\* C25 -- Key focus never contradicts the classified level: with level the
\* level calculateRisk returned for the input, the key focus starts with
\* 'Low risk situation' only if level is low, with 'Medium risk' only if
\* level is medium, and with 'High-risk scenario' or 'Critical' only if
\* level is high.
C25_Original ==
    KeyFocusComputed =>
        /\ result.keyFocus \in LowFocus => result.risk.level = "low"
        /\ result.keyFocus \in MediumFocus => result.risk.level = "medium"
        /\ result.keyFocus \in HighFocus => result.risk.level = "high"

\* ========================================================================
\* Priority actions of an evaluation
\* ========================================================================
\* C26 -- Priority actions are never empty in an evaluation: the list
\* process returns (generatePriorityActions called with the level
\* calculateRisk returned for the same input) has at least one action, and
\* every action's confidence is one of high, medium, low; the medium +
\* future branch, which appends only conditionally, always appends at least
\* one action for the levels the classifier can produce.
C26_ActionsNotEmpty ==
    ActionsComputed =>
        /\ Len(result.priorityActions) >= 1
        /\ \A i \in 1..Len(result.priorityActions) :
            result.priorityActions[i].confidence \in Confidences

\* The medium + future branch with a signed contract: only the conditional
\* appends of an asset sale with AR have run
C26_Witness ==
    /\ ActionsComputed
    /\ result.risk.level = "medium"
    /\ timingOf.generatePriorityActions = "future"
    /\ inputs.contractSigned = "yes"
    /\ inputs.saleType = "asset"
    /\ inputs.outstandingAR = "yes"
    /\ ~NewOwnerBlacklisted
    /\ Len(result.priorityActions) = 2
    /\ result.priorityActions[1].text = "Confirm with old owner they understand responsibility for pre-sale invoices"

\* ========================================================================
\* The continuous stage
\* ========================================================================
\* C27 -- Empty continuous stage: stages 1, 2 and 3 of the checklist each
\* contain at least one task, and stage4 is empty exactly when
\* outstandingAR = no and futureBookedShifts = yes; for such inputs no
\* stage-4 section and no stage-4 document is produced.
C27_EmptyContinuousStage ==
    pc = "return" =>
        /\ \A st \in {"stage1", "stage2", "stage3"} : Len(result.checklist[st]) >= 1
        /\ Len(result.checklist.stage4) = 0
            <=> (inputs.outstandingAR = "no" /\ inputs.futureBookedShifts = "yes")
        /\ (inputs.outstandingAR = "no" /\ inputs.futureBookedShifts = "yes") =>
            /\ "stage4" \notin DOMAIN result.stageMarkdown
            /\ \A i \in 1..Len(result.linearMarkdown) :
                result.linearMarkdown[i] # <<"### ", "Stage 4: Continuous">>

\* An evaluation of a case with booked shifts and no AR: three stage
\* documents, and the last stage section of the document is stage 3
C27_Witness ==
    /\ pc = "return"
    /\ inputs.outstandingAR = "no"
    /\ inputs.futureBookedShifts = "yes"
    /\ result.checklist.stage4 = <<>>
    /\ "stage3" \in DOMAIN result.stageMarkdown
    /\ "stage4" \notin DOMAIN result.stageMarkdown
    /\ \E i \in 1..Len(result.linearMarkdown) :
        result.linearMarkdown[i] = <<"### ", "Stage 3: Post-Outreach">>

\* ========================================================================
\* The page: stored form state and stored documents
\* ========================================================================
\* C21 -- Persistence of the last submitted form: after any sequence of
\* submit, clear and page-load events, the stored form state
\* ('chow-form-state') is exactly the input record of the most recent submit
\* if no clear happened after it, and is absent otherwise; a page load
\* re-populates every form field from the stored record with the value that
\* was submitted, and changes nothing when no record is stored.
C21_FormStatePersistence ==
    /\ formState = (IF lastSubmit = <<>> THEN <<>> ELSE <<JSONstringify(lastSubmit[1])>>)
    /\ lastEvent = "load" =>
        form = (IF lastSubmit = <<>> THEN BlankForm ELSE lastSubmit[1])

\* The page was loaded again after a submit of a form typed with blanks
\* around the old owner's name and a new-facility field of blanks only
C21_Witness ==
    /\ lastEvent = "load"
    /\ lastSubmit # <<>>
    /\ formState # <<>>
    /\ form.oldOwnerName = "Old Owner LLC"
    /\ form.newFacilityNames = <<"">>
    /\ form.newOwnerContact = <<"Jane Doe", "jane@example.com">>
    /\ form.saleType = "stock"
    /\ currentLinearMarkdown = <<>>

\* C29 as stated -- Clearing the form discards the generated plan: after
\* any sequence of submit and clear events that ends with a clear, the
\* stored full document (window.currentLinearMarkdown) and the stored stage
\* documents (window.stageMarkdown) are empty, so copy-all, per-stage copy
\* and issue creation cannot use the plan of an earlier submission.
C29_Original ==
    lastEvent = "clear" =>
        /\ currentLinearMarkdown = <<>>
        /\ DOMAIN windowStageMarkdown = {}

\* ========================================================================
\* The ticketing integration: the API key and the team list
\* ========================================================================
\* The API key updateSettings saved last, '' after clearSettings
SavedApiKey == IF storedSettings = <<>> THEN "" ELSE storedSettings[1].apiKey

\* C28 as stated -- A failed connection test leaves the ticketing settings
\* unchanged: when testConnection(key) has failed, the API key held in the
\* settings (the key later requests are sent with) is the one held before
\* the test; the effective API key changes only through updateSettings
\* (Save) or clearSettings (Disconnect).
C28_Original ==
    statusDiv = "Connection failed" => settings.apiKey = SavedApiKey

\* C30 as stated -- Overlapping connection tests stay consistent: when two
\* loadTeamsFromKey calls for different API keys overlap, then once both
\* have completed, the team list held by the settings dialog is the list
\* fetched with the API key that the settings hold, whatever order the two
\* responses arrive in.
C30_Original ==
    (requests = <<>> /\ statusDiv = "Connected! Select a team."
        /\ settings.apiKey \in DOMAIN TeamsByKey) =>
        teams = TeamsByKey[settings.apiKey]

\* ========================================================================
\* The ticketing integration: creation of an issue
\* ========================================================================
\* The issue-creation requests in flight
IssuesInFlight == {i \in 1..Len(requests) : requests[i].query = "issueCreate"}

\* A step in which an issue-creation request settles
IssueSettles ==
    \E i \in IssuesInFlight : requests' = RemoveAt(requests, i)

\* What a step leaves behind when createIssue has failed: the error in the
\* open modal, no 'Created' feedback
FailureShown ==
    /\ createIssueStatus' = "Error: Failed to create issue"
    /\ createIssueModal' = createIssueModal
    /\ createdShown' = createdShown

\* What a step leaves behind when the issue was created
CreatedShown ==
    /\ createIssueModal' = FALSE
    /\ createIssueStatus' = ""
    /\ createdShown' = TRUE

\* C22 -- Issue creation is guarded against overlap and surfaces errors:
\* from a click on Confirm with a non-empty title until the createIssue
\* request settles the confirm button is disabled, so at most one
\* issue-creation request is in flight at any time; the button is enabled
\* again after success and after failure; on failure the error message is
\* shown in the modal, the modal stays open and no 'Created' feedback is
\* shown.
C22_IssueCreationGuarded ==
    /\ [](/\ Cardinality(IssuesInFlight) <= 1
          /\ confirmDisabled <=> IssuesInFlight # {})
    /\ [][IssueSettles =>
            /\ ~confirmDisabled'
            /\ FailureShown \/ CreatedShown]_vars

\* createIssue has failed: the error is shown in the open modal, the button
\* is enabled again and nothing is in flight
C22_Witness ==
    /\ createIssueStatus = "Error: Failed to create issue"
    /\ createIssueModal
    /\ ~confirmDisabled
    /\ ~createdShown
    /\ requests = <<>>
    /\ ~TitleEmpty(issueTitle)

====
